---- MODULE Spec2Model ----
(***************************************************************************)
(* ChoreNet (trackzero/chorenet): the chore-instance lifecycle engine of   *)
(* ChoreNetCoordinator (src/__init__.py) together with the completion      *)
(* switch (src/switch.py) and the configuration the options flow can       *)
(* produce (src/config_flow.py).                                           *)
(*                                                                         *)
(* Representation.                                                         *)
(*  - A calendar date is a day number, 0 = 2026-01-01 (a Thursday); the    *)
(*    model stays inside the non-leap years 2026 and 2027.  A datetime is  *)
(*    a day number plus a wall-clock "HH:MM" string.  Every due date the   *)
(*    code builds is truncated to midnight, so a due date is a day number  *)
(*    and isoformat()/fromisoformat() of it is a bijection on day numbers. *)
(*  - A string that the code compares with <= is a sequence of character   *)
(*    codes compared lexicographically, as Python compares str.            *)
(*  - A dict is a function; dict.get(k) is a set with at most one element  *)
(*    (empty for None).  The instance key f"{chore_id}_{date}" is the pair *)
(*    <<chore_id, date>>: the date part has a fixed width of ten           *)
(*    characters, so the formatted key determines both parts.              *)
(*  - assigned_people is a list without duplicates that the code only      *)
(*    tests for membership and quantifies over; it is a set here.          *)
(*                                                                         *)
(* Two levels.  Spec runs every call of complete_chore and of              *)
(* async_turn_off from its first line to its return in one step, with no   *)
(* automation configured and a storage that always writes.  AwaitSpec      *)
(* runs the same calls one stretch between two awaits at a time: calls     *)
(* holds the coroutines that wait at an await, and the awaited call (the   *)
(* automation.trigger service, the write of the store) returns or fails.   *)
(* WindowSpec runs the refresh over the time windows of the people.        *)
(***************************************************************************)
EXTENDS Integers, Sequences, FiniteSets, TLC

VARIABLES people, chores, chore_instances, now, saved, switches, events, last,
          calls, refresh_requested

vars == <<people, chores, chore_instances, now, saved, switches, events, last,
          calls, refresh_requested>>

-----------------------------------------------------------------------------
(* Bounds of the model. *)

\* Number of midnights a run may pass.
MaxDays == 1

\* Number of times the clock may move on in a run that has calls in flight.
MaxLater == 2

-----------------------------------------------------------------------------
(* const.py *)

CHORE_STATUS_PENDING == "pending"
CHORE_STATUS_COMPLETED == "completed"
CHORE_STATUS_OVERDUE == "overdue"
CHORE_STATUS_INACTIVE == "inactive"

CHORE_PERIOD_MORNING == "morning"
CHORE_PERIOD_AFTERNOON == "afternoon"
CHORE_PERIOD_EVENING == "evening"
CHORE_PERIOD_ALL_DAY == "all_day"

RECURRENCE_DAILY == "daily"
RECURRENCE_WEEKLY == "weekly"
RECURRENCE_MONTHLY == "monthly"
RECURRENCE_ONCE == "once"

EVENT_CHORE_COMPLETED == "chorenet_chore_completed"
EVENT_ALL_CHORES_COMPLETED == "chorenet_all_chores_completed"
EVENT_CHORES_ACTIVATED == "chorenet_chores_activated"
\* __init__.py imports EVENT_PERSON_COMPLETED from const.py, which does not
\* define it; the name follows the pattern of the other three.
EVENT_PERSON_COMPLETED == "chorenet_person_completed"

-----------------------------------------------------------------------------
(* Calendar arithmetic of datetime, for 2026 and 2027. *)

MonthLen == <<31, 28, 31, 30, 31, 30, 31, 31, 30, 31, 30, 31>>

\* Days of the year before month m (1..12).
RECURSIVE DaysBeforeMonth(_)
DaysBeforeMonth(m) == IF m = 1 THEN 0 ELSE DaysBeforeMonth(m - 1) + MonthLen[m - 1]

\* Day number of a calendar date (year offset y: 0 = 2026, 1 = 2027).
Ordinal(y, m, d) == 365 * y + DaysBeforeMonth(m) + (d - 1)

RECURSIVE MonthOfYearDay(_, _)
MonthOfYearDay(yd, m) ==
    IF yd < MonthLen[m] THEN m ELSE MonthOfYearDay(yd - MonthLen[m], m + 1)

\* The calendar date of a day number.
DateOf(n) ==
    LET y == n \div 365
        yd == n % 365
        m == MonthOfYearDay(yd, 1)
    IN [year |-> y, month |-> m, day |-> yd - DaysBeforeMonth(m) + 1]

\* datetime.weekday(): 0 = Monday; 2026-01-01 is a Thursday.
Weekday(n) == (n + 3) % 7

\* Character codes in ASCII order: the digits, then ':'.
Colon == 10

\* Python's str <= str.
RECURSIVE StrLeq(_, _)
StrLeq(a, b) ==
    IF a = <<>> THEN TRUE
    ELSE IF b = <<>> THEN FALSE
    ELSE IF Head(a) < Head(b) THEN TRUE
    ELSE IF Head(a) > Head(b) THEN FALSE
    ELSE StrLeq(Tail(a), Tail(b))

\* now.strftime("%H:%M") of a clock reading given as hour and minute.
Strftime(h, m) == <<h \div 10, h % 10, Colon, m \div 10, m % 10>>

-----------------------------------------------------------------------------
(* dict.get *)

\* d.get(k): the value in a set, or the empty set for None.
Get(d, k) == IF k \in DOMAIN d THEN {d[k]} ELSE {}

\* d.get(k, default)
GetOr(d, k, default) == IF k \in DOMAIN d THEN d[k] ELSE default

\* The value of a non-empty optional.
The(opt) == CHOOSE x \in opt : TRUE

\* The empty dict.
EmptyDict == [x \in {} |-> x]

\* The key f"{chore_id}_{next_due.date().isoformat()}".
InstanceKey(chore_id, due) == <<chore_id, due>>

-----------------------------------------------------------------------------
(* Recurrence calculator and instance generator *)

\* The weekly branch with "days_ahead < 0" for "days_ahead <= 0".
calculate_next_due_date_same_day(chore, nw) ==
    LET recurrence_type == chore.recurrence.type
        today == DateOf(nw.day)
    IN IF recurrence_type = RECURRENCE_DAILY
       THEN {nw.day}
       ELSE IF recurrence_type = RECURRENCE_WEEKLY
       THEN LET target_weekday == chore.recurrence.weekday
                diff == target_weekday - Weekday(nw.day)
                days_ahead == IF diff < 0 THEN diff + 7 ELSE diff
            IN {nw.day + days_ahead}
       ELSE IF recurrence_type = RECURRENCE_MONTHLY
       THEN LET target_day == chore.recurrence.day
            IN IF today.day <= target_day
               THEN {Ordinal(today.year, today.month, target_day)}
               ELSE LET next_month == DateOf(Ordinal(today.year, today.month, 1) + 32)
                    IN {Ordinal(next_month.year, next_month.month, target_day)}
       ELSE {}

\* The monthly branch with "now.day < target_day" for "now.day <= target_day".
calculate_next_due_date_after_today(chore, nw) ==
    LET recurrence_type == chore.recurrence.type
        today == DateOf(nw.day)
    IN IF recurrence_type = RECURRENCE_DAILY
       THEN {nw.day}
       ELSE IF recurrence_type = RECURRENCE_WEEKLY
       THEN LET target_weekday == chore.recurrence.weekday
                diff == target_weekday - Weekday(nw.day)
                days_ahead == IF diff <= 0 THEN diff + 7 ELSE diff
            IN {nw.day + days_ahead}
       ELSE IF recurrence_type = RECURRENCE_MONTHLY
       THEN LET target_day == chore.recurrence.day
            IN IF today.day < target_day
               THEN {Ordinal(today.year, today.month, target_day)}
               ELSE LET next_month == DateOf(Ordinal(today.year, today.month, 1) + 32)
                    IN {Ordinal(next_month.year, next_month.month, target_day)}
       ELSE {}

\* The calculator treating every type it has no branch for as daily.
calculate_next_due_date_else_daily(chore, nw) ==
    LET recurrence_type == chore.recurrence.type
        today == DateOf(nw.day)
    IN IF recurrence_type = RECURRENCE_WEEKLY
       THEN LET target_weekday == chore.recurrence.weekday
                diff == target_weekday - Weekday(nw.day)
                days_ahead == IF diff <= 0 THEN diff + 7 ELSE diff
            IN {nw.day + days_ahead}
       ELSE IF recurrence_type = RECURRENCE_MONTHLY
       THEN LET target_day == chore.recurrence.day
            IN IF today.day <= target_day
               THEN {Ordinal(today.year, today.month, target_day)}
               ELSE LET next_month == DateOf(Ordinal(today.year, today.month, 1) + 32)
                    IN {Ordinal(next_month.year, next_month.month, target_day)}
       ELSE {nw.day}

calculate_next_due_date(chore, nw) ==
    LET recurrence_type == chore.recurrence.type
        today == DateOf(nw.day)
    IN IF recurrence_type = RECURRENCE_DAILY
       THEN {nw.day}
       ELSE IF recurrence_type = RECURRENCE_WEEKLY
       THEN LET target_weekday == chore.recurrence.weekday
                diff == target_weekday - Weekday(nw.day)
                days_ahead == IF diff <= 0 THEN diff + 7 ELSE diff
            IN {nw.day + days_ahead}
       ELSE IF recurrence_type = RECURRENCE_MONTHLY
       THEN LET target_day == chore.recurrence.day
            IN IF today.day <= target_day
               THEN {Ordinal(today.year, today.month, target_day)}
               ELSE LET next_month == DateOf(Ordinal(today.year, today.month, 1) + 32)
                    IN {Ordinal(next_month.year, next_month.month, target_day)}
       ELSE {}

\* The record a new instance starts as.
NewInstance(chore_id, chore, due) ==
    [chore_id |-> chore_id,
     due_date |-> due,
     status |-> CHORE_STATUS_INACTIVE,
     assigned_people |-> chore.assigned_people,
     completions |-> EmptyDict]

\* The generator without its "not in self._chore_instances" test.
generate_overwriting(store, chore_id, chore, nw) ==
    IF ~chore.enabled THEN store
    ELSE LET next_due == calculate_next_due_date(chore, nw)
         IN IF next_due # {} /\ The(next_due) <= nw.day
            THEN LET instance_key == InstanceKey(chore_id, The(next_due))
                 IN [k \in DOMAIN store \cup {instance_key} |->
                        IF k = instance_key
                        THEN NewInstance(chore_id, chore, The(next_due))
                        ELSE store[k]]
            ELSE store

\* The generator with "if next_due:" for "if next_due and next_due <= now:".
generate_before_due(store, chore_id, chore, nw) ==
    IF ~chore.enabled THEN store
    ELSE LET next_due == calculate_next_due_date(chore, nw)
         IN IF next_due # {}
            THEN LET instance_key == InstanceKey(chore_id, The(next_due))
                 IN IF instance_key \notin DOMAIN store
                    THEN (instance_key :> NewInstance(chore_id, chore, The(next_due))) @@ store
                    ELSE store
            ELSE store

\* The generator without its test of the enabled flag.
generate_ignoring_enabled(store, chore_id, chore, nw) ==
    LET next_due == calculate_next_due_date(chore, nw)
    IN IF next_due # {} /\ The(next_due) <= nw.day
       THEN LET instance_key == InstanceKey(chore_id, The(next_due))
            IN IF instance_key \notin DOMAIN store
               THEN (instance_key :> NewInstance(chore_id, chore, The(next_due))) @@ store
               ELSE store
       ELSE store

generate_chore_instances(store, chore_id, chore, nw) ==
    IF ~chore.enabled THEN store
    ELSE LET next_due == calculate_next_due_date(chore, nw)
         IN IF next_due # {} /\ The(next_due) <= nw.day
            THEN LET instance_key == InstanceKey(chore_id, The(next_due))
                 IN IF instance_key \notin DOMAIN store
                    THEN (instance_key :> NewInstance(chore_id, chore, The(next_due))) @@ store
                    ELSE store
            ELSE store

-----------------------------------------------------------------------------
(* Overdue detector *)

\* The date comparison off by one day.
is_chore_overdue_late(due_date, time_period, nw) ==
    nw.day > due_date + 1

\* Both branches of the code compare calendar dates only.
is_chore_overdue(due_date, time_period, nw) ==
    IF time_period = CHORE_PERIOD_ALL_DAY
    THEN nw.day > due_date
    ELSE nw.day > due_date

\* The detector without its test of the pending status.
mark_overdue_chores_any_status(store, chore_id, chore, nw) ==
    [k \in DOMAIN store |->
        IF /\ store[k].chore_id = chore_id
           /\ is_chore_overdue(store[k].due_date, chore.time_period, nw)
        THEN [store[k] EXCEPT !.status = CHORE_STATUS_OVERDUE]
        ELSE store[k]]

\* The detector dropping the instances it finds overdue.
mark_overdue_chores_pruning(store, chore_id, chore, nw) ==
    LET overdue == {k \in DOMAIN store :
                      /\ store[k].chore_id = chore_id
                      /\ store[k].status = CHORE_STATUS_PENDING
                      /\ is_chore_overdue(store[k].due_date, chore.time_period, nw)}
    IN [k \in DOMAIN store \ overdue |-> store[k]]

mark_overdue_chores(store, chore_id, chore, nw) ==
    [k \in DOMAIN store |->
        IF /\ store[k].chore_id = chore_id
           /\ store[k].status = CHORE_STATUS_PENDING
           /\ is_chore_overdue(store[k].due_date, chore.time_period, nw)
        THEN [store[k] EXCEPT !.status = CHORE_STATUS_OVERDUE]
        ELSE store[k]]

-----------------------------------------------------------------------------
(* Activation engine *)

\* The window without its first minute.
is_in_time_window_after_start(person, time_period, nw) ==
    LET time_windows == person.time_windows
        current_time == Strftime(nw.hour, nw.minute)
        within(start_time, end_time) ==
            /\ StrLeq(start_time, current_time)
            /\ start_time # current_time
            /\ StrLeq(current_time, end_time)
    IN IF time_period = CHORE_PERIOD_MORNING
       THEN within(GetOr(time_windows, "morning_start", Strftime(6, 0)),
                   GetOr(time_windows, "morning_end", Strftime(12, 0)))
       ELSE IF time_period = CHORE_PERIOD_AFTERNOON
       THEN within(GetOr(time_windows, "afternoon_start", Strftime(12, 0)),
                   GetOr(time_windows, "afternoon_end", Strftime(18, 0)))
       ELSE IF time_period = CHORE_PERIOD_EVENING
       THEN within(GetOr(time_windows, "evening_start", Strftime(18, 0)),
                   GetOr(time_windows, "evening_end", Strftime(22, 0)))
       ELSE TRUE

is_in_time_window(person, time_period, nw) ==
    LET time_windows == person.time_windows
        current_time == Strftime(nw.hour, nw.minute)
        within(start_time, end_time) ==
            StrLeq(start_time, current_time) /\ StrLeq(current_time, end_time)
    IN IF time_period = CHORE_PERIOD_MORNING
       THEN within(GetOr(time_windows, "morning_start", Strftime(6, 0)),
                   GetOr(time_windows, "morning_end", Strftime(12, 0)))
       ELSE IF time_period = CHORE_PERIOD_AFTERNOON
       THEN within(GetOr(time_windows, "afternoon_start", Strftime(12, 0)),
                   GetOr(time_windows, "afternoon_end", Strftime(18, 0)))
       ELSE IF time_period = CHORE_PERIOD_EVENING
       THEN within(GetOr(time_windows, "evening_start", Strftime(18, 0)),
                   GetOr(time_windows, "evening_end", Strftime(22, 0)))
       ELSE TRUE

\* The loop over every configured person instead of the assigned ones.
should_activate_chore_any_person(ppl, instance, chore, nw) ==
    IF chore.time_period = CHORE_PERIOD_ALL_DAY THEN TRUE
    ELSE \E person_id \in DOMAIN ppl :
            is_in_time_window(ppl[person_id], chore.time_period, nw)

should_activate_chore(ppl, instance, chore, nw) ==
    IF chore.time_period = CHORE_PERIOD_ALL_DAY THEN TRUE
    ELSE \E person_id \in instance.assigned_people :
            /\ person_id \in DOMAIN ppl
            /\ is_in_time_window(ppl[person_id], chore.time_period, nw)

\* An event on the bus: its type and what its payload refers to (the chore
\* definition, the instances by key, the person), each empty when absent.
Event(type, chore, instances, person) ==
    [type |-> type, chore |-> chore, instances |-> instances, person |-> person]

\* The keys of the instances activated by this run.
NewlyActivated(ppl, chs, store, nw) ==
    {k \in DOMAIN store :
        /\ store[k].status = CHORE_STATUS_INACTIVE
        /\ store[k].chore_id \in DOMAIN chs
        /\ should_activate_chore(ppl, store[k], chs[store[k].chore_id], nw)}

\* The check without its "if newly_activated" before the event.
check_activated_chores_always_firing(ppl, chs, store, nw) ==
    LET newly_activated == NewlyActivated(ppl, chs, store, nw)
    IN [store |-> [k \in DOMAIN store |->
                     IF k \in newly_activated
                     THEN [store[k] EXCEPT !.status = CHORE_STATUS_PENDING]
                     ELSE store[k]],
        events |-> <<Event(EVENT_CHORES_ACTIVATED, {}, newly_activated, {})>>]

check_activated_chores(ppl, chs, store, nw) ==
    LET newly_activated == NewlyActivated(ppl, chs, store, nw)
    IN [store |-> [k \in DOMAIN store |->
                     IF k \in newly_activated
                     THEN [store[k] EXCEPT !.status = CHORE_STATUS_PENDING]
                     ELSE store[k]],
        events |-> IF newly_activated # {}
                   THEN <<Event(EVENT_CHORES_ACTIVATED, {}, newly_activated, {})>>
                   ELSE <<>>]

-----------------------------------------------------------------------------
(* Aggregate check *)

ActiveStatuses == {CHORE_STATUS_PENDING, CHORE_STATUS_OVERDUE}

\* all(instance["completions"].values())
AllValues(completions) == \A p \in DOMAIN completions : completions[p]

check_all_chores_completed(store) ==
    LET active_chores == {k \in DOMAIN store : store[k].status \in ActiveStatuses}
        completed_chores == {k \in active_chores : AllValues(store[k].completions)}
    IN IF active_chores # {} /\ Cardinality(completed_chores) = Cardinality(active_chores)
       THEN <<Event(EVENT_ALL_CHORES_COMPLETED, {}, completed_chores, {})>>
       ELSE <<>>

-----------------------------------------------------------------------------
(* One run of the coordinator: _async_update_data *)

\* The chore ids in the order the run visits them.
ChoreOrder == <<"dishes", "walk", "trash", "rent", "gift">>

\* Generation and overdue marking chore by chore, from position i of the order.
RECURSIVE UpdateFrom(_, _, _, _)
UpdateFrom(chs, store, nw, i) ==
    IF i > Len(ChoreOrder) THEN store
    ELSE LET chore_id == ChoreOrder[i]
         IN IF chore_id \in DOMAIN chs
            THEN UpdateFrom(chs,
                     mark_overdue_chores(
                         generate_chore_instances(store, chore_id, chs[chore_id], nw),
                         chore_id, chs[chore_id], nw),
                     nw, i + 1)
            ELSE UpdateFrom(chs, store, nw, i + 1)

update_chore_instances(chs, store, nw) == UpdateFrom(chs, store, nw, 1)

\* The run with the activation check ahead of the generation.
async_update_data_activation_first(ppl, chs, store, nw) ==
    LET activated == check_activated_chores(ppl, chs, store, nw)
        updated == update_chore_instances(chs, activated.store, nw)
    IN [store |-> updated,
        events |-> activated.events \o check_all_chores_completed(updated)]

\* The store and the events of one run at time nw.
async_update_data(ppl, chs, store, nw) ==
    LET updated == update_chore_instances(chs, store, nw)
        activated == check_activated_chores(ppl, chs, updated, nw)
    IN [store |-> activated.store,
        events |-> activated.events \o check_all_chores_completed(activated.store)]

-----------------------------------------------------------------------------
(* Completion tracker *)

\* any() where the code has all().
AnyAssignedDone(instance) ==
    \E pid \in instance.assigned_people : GetOr(instance.completions, pid, FALSE)

\* all(instance["completions"].get(pid, False) for pid in assigned_people)
AllAssignedDone(instance) ==
    \A pid \in instance.assigned_people : GetOr(instance.completions, pid, FALSE)

\* completions = {person_id: value}
SetCompletionAlone(completions, person_id, value) == (person_id :> value)

\* completions[person_id] = value
SetCompletion(completions, person_id, value) ==
    (person_id :> value) @@ completions

\* The person-level check without its test for an empty list.
check_person_ignoring_empty(ppl, store, person_id) ==
    IF person_id \notin DOMAIN ppl THEN <<>>
    ELSE LET person_active_chores ==
                 {k \in DOMAIN store :
                     /\ person_id \in store[k].assigned_people
                     /\ store[k].status \in ActiveStatuses}
         IN IF \A k \in person_active_chores :
                  GetOr(store[k].completions, person_id, FALSE)
            THEN <<Event(EVENT_PERSON_COMPLETED, {}, person_active_chores, {person_id})>>
            ELSE <<>>

check_person_all_chores_completed(ppl, store, person_id) ==
    IF person_id \notin DOMAIN ppl THEN <<>>
    ELSE LET person_active_chores ==
                 {k \in DOMAIN store :
                     /\ person_id \in store[k].assigned_people
                     /\ store[k].status \in ActiveStatuses}
             all_completed ==
                 \A k \in person_active_chores :
                     GetOr(store[k].completions, person_id, FALSE)
         IN IF person_active_chores # {} /\ all_completed
            THEN <<Event(EVENT_PERSON_COMPLETED, {}, person_active_chores, {person_id})>>
                 \o (IF ppl[person_id].completion_automation # {}
                     THEN <<Event("automation.trigger", {}, {},
                                  ppl[person_id].completion_automation)>>
                     ELSE <<>>)
            ELSE <<>>

\* The return value, the store and the events of complete_chore.
complete_chore(ppl, chs, store, chore_instance_id, person_id) ==
    IF chore_instance_id \notin DOMAIN store
    THEN [ret |-> FALSE, store |-> store, events |-> <<>>, saves |-> FALSE]
    ELSE LET instance == store[chore_instance_id]
             flagged == [instance EXCEPT
                            !.completions = SetCompletion(@, person_id, TRUE)]
             done == AllAssignedDone(flagged)
             updated == IF done
                        THEN [flagged EXCEPT !.status = CHORE_STATUS_COMPLETED]
                        ELSE flagged
             store2 == [store EXCEPT ![chore_instance_id] = updated]
             chore == Get(chs, instance.chore_id)
             fired ==
                 IF done
                 THEN <<Event(EVENT_CHORE_COMPLETED, chore, {chore_instance_id}, {})>>
                      \o (IF chore # {} /\ The(chore).completion_automation # {}
                          THEN <<Event("automation.trigger", {}, {},
                                       The(chore).completion_automation)>>
                          ELSE <<>>)
                 ELSE <<>>
         IN [ret |-> TRUE,
             store |-> store2,
             events |-> fired \o check_person_all_chores_completed(ppl, store2, person_id),
             saves |-> TRUE]

\* async_turn_off without its write of the flag.
async_turn_off_keeping_flag(store, instance_key, person_id) ==
    IF instance_key \notin DOMAIN store THEN store
    ELSE [store EXCEPT ![instance_key].status =
             IF @ = CHORE_STATUS_COMPLETED THEN CHORE_STATUS_PENDING ELSE @]

\* async_turn_off without its reset of a completed status.
async_turn_off_keeping_status(store, instance_key, person_id) ==
    IF instance_key \notin DOMAIN store THEN store
    ELSE [store EXCEPT ![instance_key].completions =
             SetCompletion(@, person_id, FALSE)]

\* async_turn_off sending a completed instance to overdue.
async_turn_off_to_overdue(store, instance_key, person_id) ==
    IF instance_key \notin DOMAIN store THEN store
    ELSE LET instance == store[instance_key]
             cleared == [instance EXCEPT
                            !.completions = SetCompletion(@, person_id, FALSE)]
         IN [store EXCEPT ![instance_key] =
                IF instance.status = CHORE_STATUS_COMPLETED
                THEN [cleared EXCEPT !.status = CHORE_STATUS_OVERDUE]
                ELSE cleared]

\* The store after ChoreCompletionSwitch.async_turn_off.
async_turn_off(store, instance_key, person_id) ==
    IF instance_key \notin DOMAIN store THEN store
    ELSE LET instance == store[instance_key]
             cleared == [instance EXCEPT
                            !.completions = SetCompletion(@, person_id, FALSE)]
         IN [store EXCEPT ![instance_key] =
                IF instance.status = CHORE_STATUS_COMPLETED
                THEN [cleared EXCEPT !.status = CHORE_STATUS_PENDING]
                ELSE cleared]

\* The completion switches the switch platform creates when it is set up.
SwitchEntities(store) ==
    UNION {{<<k, person_id>> : person_id \in store[k].assigned_people} :
              k \in {i \in DOMAIN store : store[i].status \in ActiveStatuses}}

-----------------------------------------------------------------------------
(* Binary sensors *)

\* AllChoresCompletedSensor.is_on
AllChoresCompletedSensor_is_on(store) ==
    LET active_instances == {k \in DOMAIN store : store[k].status \in ActiveStatuses}
    IN IF active_instances = {} THEN FALSE
       ELSE \A k \in active_instances :
               \A person_id \in store[k].assigned_people :
                  GetOr(store[k].completions, person_id, FALSE)

\* PersonAllChoresCompletedSensor.is_on
PersonAllChoresCompletedSensor_is_on(store, person_id) ==
    LET person_active_chores ==
            {k \in DOMAIN store :
                /\ person_id \in store[k].assigned_people
                /\ store[k].status \in ActiveStatuses}
    IN IF person_active_chores = {} THEN FALSE
       ELSE \A k \in person_active_chores :
               GetOr(store[k].completions, person_id, FALSE)

-----------------------------------------------------------------------------
(* The configuration the options flow produces *)

PersonIds == {"alice", "bob"}

\* DEFAULT_TIME_WINDOWS
DEFAULT_TIME_WINDOWS ==
    [k \in {"morning_start", "morning_end", "afternoon_start",
            "afternoon_end", "evening_start", "evening_end"} |->
        CASE k = "morning_start" -> Strftime(6, 0)
          [] k = "morning_end" -> Strftime(12, 0)
          [] k = "afternoon_start" -> Strftime(12, 0)
          [] k = "afternoon_end" -> Strftime(18, 0)
          [] k = "evening_start" -> Strftime(18, 0)
          [] k = "evening_end" -> Strftime(22, 0)]

\* The person record async_step_add_person stores.
NewPerson(person_id) ==
    [person_id |-> person_id,
     time_windows |-> DEFAULT_TIME_WINDOWS,
     completion_automation |-> {}]

\* The chore record async_step_add_chore stores.  The form has no weekday
\* and no day field, so a weekly rule is always weekday 0 and a monthly rule
\* always day 1.
NewChore(chore_id, assigned_people, time_period, recurrence_type) ==
    [chore_id |-> chore_id,
     assigned_people |-> assigned_people,
     time_period |-> time_period,
     enabled |-> TRUE,
     recurrence |-> [type |-> recurrence_type,
                     weekday |-> 0,
                     day |-> 1],
     completion_automation |-> {}]

\* The chores a run of the model may add, by id.
ChoreCatalog ==
    [c \in {"dishes", "walk", "trash", "rent", "gift"} |->
        CASE c = "dishes" ->
               NewChore(c, {"alice", "bob"}, CHORE_PERIOD_ALL_DAY, RECURRENCE_DAILY)
          [] c = "walk" ->
               NewChore(c, {"alice"}, CHORE_PERIOD_MORNING, RECURRENCE_DAILY)
          [] c = "trash" ->
               NewChore(c, {"alice"}, CHORE_PERIOD_ALL_DAY, RECURRENCE_WEEKLY)
          [] c = "rent" ->
               NewChore(c, {"bob"}, CHORE_PERIOD_ALL_DAY, RECURRENCE_MONTHLY)
          [] c = "gift" ->
               NewChore(c, {"alice"}, CHORE_PERIOD_ALL_DAY, RECURRENCE_ONCE)]

\* A dict restricted to some of its keys.
Restrict(d, keys) == [k \in keys |-> d[k]]

\* The configurations a run of the model starts from: the people and the
\* chores the options flow was used to add (and, for people, to remove
\* again) before the entry was set up.
Scenarios ==
    {[people |-> ppl, chores |-> chs] :
        ppl \in {{"alice", "bob"}},
        chs \in {{"dishes"}, {"walk"}, {"trash"}, {"rent"}, {"gift"}}}

-----------------------------------------------------------------------------
(* Time *)

\* The wall-clock readings of a day at which the model looks: <<hour, minute>>.
ClockSlots == << <<5, 0>>, <<9, 0>> >>

\* First day of every run: Sunday 2026-02-01.
StartDay == Ordinal(0, 2, 1)

TimeAt(day, slot) ==
    [day |-> day, slot |-> slot,
     hour |-> ClockSlots[slot][1], minute |-> ClockSlots[slot][2]]

\* An instance id that names no instance.
UnknownKey == InstanceKey("nothing", StartDay)

-----------------------------------------------------------------------------
(* State machine *)

Op(op, args, ret) == [op |-> op, args |-> args, ret |-> ret]

\* No coroutine of the person id waits at an await.
Idle == [op |-> "none", id |-> UnknownKey, pc |-> "idle"]

\* No call is in flight and no refresh is requested.
Quiet ==
    /\ calls = [p \in PersonIds |-> Idle]
    /\ refresh_requested = FALSE

\* async_setup_entry: load the stored instances, merge them with the entry's
\* options, run the first refresh, set up the switch platform.
SetupEntry(ppl, chs, stored) ==
    LET first == async_update_data(ppl, chs, stored, now)
    IN /\ people' = ppl
       /\ chores' = chs
       /\ chore_instances' = first.store
       /\ events' = first.events
       /\ switches' = SwitchEntities(first.store)
       /\ UNCHANGED <<now, saved, calls, refresh_requested>>

\* The entry was configured through the options flow and is set up with
\* nothing stored yet.
Init ==
    /\ now = TimeAt(StartDay, 1)
    /\ saved = EmptyDict
    /\ last = Op("setup", <<>>, TRUE)
    /\ Quiet
    /\ \E sc \in Scenarios :
          LET ppl == [p \in sc.people |-> NewPerson(p)]
              chs == Restrict(ChoreCatalog, sc.chores)
              first == async_update_data(ppl, chs, EmptyDict, now)
          IN /\ people = ppl
             /\ chores = chs
             /\ chore_instances = first.store
             /\ events = first.events
             /\ switches = SwitchEntities(first.store)

\* The periodic or requested refresh of the coordinator.
\* A refresh that ends with a save of the store.
Tick_saving ==
    LET run == async_update_data(people, chores, chore_instances, now)
    IN /\ chore_instances' = run.store
       /\ events' = run.events
       /\ saved' = run.store
       /\ last' = Op("tick", <<>>, TRUE)
       /\ refresh_requested' = FALSE
       /\ UNCHANGED <<people, chores, now, switches, calls>>

Tick ==
    LET run == async_update_data(people, chores, chore_instances, now)
    IN /\ chore_instances' = run.store
       /\ events' = run.events
       /\ last' = Op("tick", <<>>, TRUE)
       /\ refresh_requested' = FALSE
       /\ UNCHANGED <<people, chores, now, saved, switches, calls>>

\* Time passes to the next reading of the clock; nothing of the program runs.
Advance ==
    /\ \/ /\ now.slot < Len(ClockSlots)
          /\ now' = TimeAt(now.day, now.slot + 1)
       \/ /\ now.slot = Len(ClockSlots)
          /\ now.day < StartDay + MaxDays
          /\ now' = TimeAt(now.day + 1, 1)
    /\ events' = <<>>
    /\ last' = Op("advance", <<>>, TRUE)
    /\ UNCHANGED <<people, chores, chore_instances, saved, switches,
                   calls, refresh_requested>>

\* A call that saves whatever it returns.
Completion_saving_always(op, chore_instance_id, person_id) ==
    LET call == complete_chore(people, chores, chore_instances,
                               chore_instance_id, person_id)
    IN /\ chore_instances' = call.store
       /\ events' = call.events
       /\ saved' = call.store
       /\ last' = Op(op, <<chore_instance_id, person_id>>, call.ret)
       /\ UNCHANGED <<people, chores, now, switches, calls, refresh_requested>>

\* A call that saves before it updates the instance.
Completion_saving_first(op, chore_instance_id, person_id) ==
    LET call == complete_chore(people, chores, chore_instances,
                               chore_instance_id, person_id)
    IN /\ chore_instances' = call.store
       /\ events' = call.events
       /\ saved' = IF call.saves THEN chore_instances ELSE saved
       /\ last' = Op(op, <<chore_instance_id, person_id>>, call.ret)
       /\ UNCHANGED <<people, chores, now, switches, calls, refresh_requested>>

\* What a call of coordinator.complete_chore leaves behind.
Completion(op, chore_instance_id, person_id) ==
    LET call == complete_chore(people, chores, chore_instances,
                               chore_instance_id, person_id)
    IN /\ chore_instances' = call.store
       /\ events' = call.events
       /\ saved' = IF call.saves THEN call.store ELSE saved
       /\ last' = Op(op, <<chore_instance_id, person_id>>, call.ret)
       /\ UNCHANGED <<people, chores, now, switches, calls, refresh_requested>>

\* The chorenet.complete_chore service, with the id of any instance or of
\* none and any person id; ChoreCompletionSwitch.async_turn_on makes the same
\* call with the ids of its switch.
CompleteChore ==
    \E chore_instance_id \in DOMAIN chore_instances \cup {UnknownKey},
       person_id \in PersonIds :
        Completion("complete_chore", chore_instance_id, person_id)

\* What a call of ChoreCompletionSwitch.async_turn_off leaves behind.
Uncompletion(sw) ==
    /\ chore_instances' = async_turn_off(chore_instances, sw[1], sw[2])
    /\ saved' = IF sw[1] \in DOMAIN chore_instances
                THEN chore_instances' ELSE saved
    /\ events' = <<>>
    /\ last' = Op("turn_off", sw, sw[1] \in DOMAIN chore_instances)
    /\ UNCHANGED <<people, chores, now, switches, calls, refresh_requested>>

\* ChoreCompletionSwitch.async_turn_off
TurnOff == \E sw \in switches : Uncompletion(sw)

\* Home Assistant restarts or reloads the entry: async_setup_entry again,
\* with the same options and whatever was saved.
Restart ==
    /\ SetupEntry(people, chores, saved)
    /\ last' = Op("setup", <<>>, TRUE)

\* The integration is removed and added again: the new entry has no people
\* and no chores, and the storage file is still there.
ReAdd ==
    /\ SetupEntry(EmptyDict, EmptyDict, saved)
    /\ last' = Op("readd", <<>>, TRUE)

Next ==
    \/ Tick
    \/ Advance
    \/ CompleteChore
    \/ TurnOff
    \/ Restart
    \/ ReAdd

Spec == Init /\ [][Next]_vars

-----------------------------------------------------------------------------
(* The calls, one stretch between two awaits at a time *)

\* A person or chore record whose form named a completion automation.
WithAutomation(record, entity_id) ==
    [record EXCEPT !.completion_automation = {entity_id}]

\* complete_chore from its first line to where it next stops: its return of
\* False, its await on the chore's automation, or the person-level check.
complete_chore_begin(chs, store, chore_instance_id, person_id) ==
    IF chore_instance_id \notin DOMAIN store
    THEN [pc |-> "return", store |-> store, events |-> <<>>]
    ELSE LET instance == store[chore_instance_id]
             flagged == [instance EXCEPT
                            !.completions = SetCompletion(@, person_id, TRUE)]
             done == AllAssignedDone(flagged)
             updated == IF done
                        THEN [flagged EXCEPT !.status = CHORE_STATUS_COMPLETED]
                        ELSE flagged
             chore == Get(chs, instance.chore_id)
         IN [pc |-> IF done /\ chore # {} /\ The(chore).completion_automation # {}
                    THEN "chore_automation"
                    ELSE "person_check",
             store |-> [store EXCEPT ![chore_instance_id] = updated],
             events |-> IF done
                        THEN <<Event(EVENT_CHORE_COMPLETED, chore,
                                     {chore_instance_id}, {})>>
                        ELSE <<>>]

\* _check_person_all_chores_completed from its first line to where it next
\* stops: its await on the person's automation, or its return, after which
\* complete_chore awaits the save.
person_check(ppl, store, person_id) ==
    LET all_events == check_person_all_chores_completed(ppl, store, person_id)
        IsFired(e) == e.type = EVENT_PERSON_COMPLETED
        fired == SelectSeq(all_events, IsFired)
    IN [pc |-> IF Len(all_events) > Len(fired) THEN "person_automation" ELSE "save",
        events |-> fired]

\* _save_data with a write that fails putting back what the file holds.
save_data_rolling_back(store, stored, written) ==
    [store |-> IF written THEN store ELSE stored,
     saved |-> IF written THEN store ELSE stored]

\* _save_data: what is in memory and what the file holds after the awaited
\* Store.async_save, whose write succeeds or fails.
save_data(store, stored, written) ==
    [store |-> store,
     saved |-> IF written THEN store ELSE stored]

\* Only the service asking for a refresh.
requests_refresh_service_only(op, success) == op = "complete_chore"

\* Whether the caller of the coordinator goes on to async_request_refresh:
\* the service handler does after any return of complete_chore, the switch
\* when complete_chore returned True or when its instance exists.
requests_refresh(op, success) ==
    IF op = "complete_chore" THEN TRUE ELSE success

\* The coroutine waits at an await.
Suspended(op, id, pc) == [op |-> op, id |-> id, pc |-> pc]

\* The entry has the chore dishes with a completion automation, alice with
\* one and bob with none.
AwaitInit ==
    /\ now = TimeAt(StartDay, 1)
    /\ saved = EmptyDict
    /\ last = Op("setup", <<>>, TRUE)
    /\ Quiet
    /\ LET ppl == [p \in PersonIds |->
                     IF p = "alice"
                     THEN WithAutomation(NewPerson(p), "automation.alice_done")
                     ELSE NewPerson(p)]
           chs == [c \in {"dishes"} |->
                     WithAutomation(ChoreCatalog[c], "automation.dishes_done")]
           first == async_update_data(ppl, chs, EmptyDict, now)
       IN /\ people = ppl
          /\ chores = chs
          /\ chore_instances = first.store
          /\ events = first.events
          /\ switches = SwitchEntities(first.store)

\* complete_chore goes on with the person-level check on the store as it is
\* now, up to its next await.
PersonLevel(op, id, person_id, store, fired) ==
    LET check == person_check(people, store, person_id)
    IN /\ calls' = [calls EXCEPT ![person_id] = Suspended(op, id, check.pc)]
       /\ events' = fired \o check.events

\* The service handler (op complete_chore) or the switch (op turn_on) calls
\* complete_chore, which runs to its first await or returns False.
BeginCompletion(op, chore_instance_id, person_id) ==
    /\ calls[person_id] = Idle
    /\ op = "turn_on" => <<chore_instance_id, person_id>> \in switches
    /\ LET begin == complete_chore_begin(chores, chore_instances,
                                         chore_instance_id, person_id)
       IN /\ chore_instances' = begin.store
          /\ last' = Op(op, <<chore_instance_id, person_id>>, begin.pc # "return")
          /\ CASE begin.pc = "return" ->
                    /\ UNCHANGED calls
                    /\ events' = <<>>
                    /\ refresh_requested' =
                          (refresh_requested \/ requests_refresh(op, FALSE))
               [] begin.pc = "chore_automation" ->
                    /\ calls' = [calls EXCEPT ![person_id] =
                                    Suspended(op, chore_instance_id, begin.pc)]
                    /\ events' = begin.events
                    /\ UNCHANGED refresh_requested
               [] OTHER ->
                    /\ PersonLevel(op, chore_instance_id, person_id,
                                   begin.store, begin.events)
                    /\ UNCHANGED refresh_requested
    /\ UNCHANGED <<people, chores, now, saved, switches>>

BeginComplete ==
    \E op \in {"complete_chore", "turn_on"},
       chore_instance_id \in DOMAIN chore_instances \cup {UnknownKey},
       person_id \in PersonIds :
        BeginCompletion(op, chore_instance_id, person_id)

\* The awaited hass.services.async_call("automation", "trigger", ...) returns.
AutomationReturned(person_id) ==
    /\ calls[person_id].pc \in {"chore_automation", "person_automation"}
    /\ LET call == calls[person_id]
           target ==
               IF call.pc = "chore_automation"
               THEN chores[chore_instances[call.id].chore_id].completion_automation
               ELSE people[person_id].completion_automation
           trigger == <<Event("automation.trigger", {}, {}, target)>>
       IN /\ IF call.pc = "chore_automation"
             THEN PersonLevel(call.op, call.id, person_id, chore_instances, trigger)
             ELSE /\ calls' = [calls EXCEPT ![person_id] =
                                  Suspended(call.op, call.id, "save")]
                  /\ events' = trigger
          /\ last' = Op("resume", <<call.id, person_id>>, TRUE)
    /\ UNCHANGED <<people, chores, chore_instances, now, saved, switches,
                   refresh_requested>>

AutomationReturns == \E person_id \in PersonIds : AutomationReturned(person_id)

\* The awaited hass.services.async_call raises (the service is not
\* registered, or its schema rejects the data): nothing catches it, so it
\* leaves complete_chore and the handler or switch method that called it.
AutomationRaised(person_id) ==
    /\ calls[person_id].pc \in {"chore_automation", "person_automation"}
    /\ calls' = [calls EXCEPT ![person_id] = Idle]
    /\ events' = <<>>
    /\ last' = Op("raise", <<calls[person_id].id, person_id>>, FALSE)
    /\ UNCHANGED <<people, chores, chore_instances, now, saved, switches,
                   refresh_requested>>

AutomationRaises == \E person_id \in PersonIds : AutomationRaised(person_id)

\* The awaited _save_data ends, the file written or not; complete_chore
\* returns True, async_turn_off goes on, and the caller asks for a refresh.
SaveEnded(person_id, written) ==
    /\ calls[person_id].pc = "save"
    /\ LET after == save_data(chore_instances, saved, written)
       IN /\ chore_instances' = after.store
          /\ saved' = after.saved
    /\ calls' = [calls EXCEPT ![person_id] = Idle]
    /\ refresh_requested' =
          (refresh_requested \/ requests_refresh(calls[person_id].op, TRUE))
    /\ events' = <<>>
    /\ last' = Op(IF written THEN "saved" ELSE "save_failed",
                  <<calls[person_id].id, person_id>>, TRUE)
    /\ UNCHANGED <<people, chores, now, switches>>

SaveEnds == \E person_id \in PersonIds, written \in BOOLEAN : SaveEnded(person_id, written)

\* ChoreCompletionSwitch.async_turn_off from its first line to its await on
\* the save.
BeginUncompletion(sw) ==
    /\ calls[sw[2]] = Idle
    /\ chore_instances' = async_turn_off(chore_instances, sw[1], sw[2])
    /\ calls' = IF sw[1] \in DOMAIN chore_instances
                THEN [calls EXCEPT ![sw[2]] = Suspended("turn_off", sw[1], "save")]
                ELSE calls
    /\ events' = <<>>
    /\ last' = Op("turn_off", sw, sw[1] \in DOMAIN chore_instances)
    /\ UNCHANGED <<people, chores, now, saved, switches, refresh_requested>>

BeginTurnOff == \E sw \in switches : BeginUncompletion(sw)

\* Time passes while calls are in flight.
Later ==
    /\ (now.day - StartDay) * Len(ClockSlots) + now.slot <= MaxLater
    /\ Advance

AwaitNext ==
    \/ Tick
    \/ Later
    \/ BeginComplete
    \/ BeginTurnOff
    \/ AutomationReturns
    \/ AutomationRaises
    \/ SaveEnds

AwaitSpec == AwaitInit /\ [][AwaitNext]_vars

-----------------------------------------------------------------------------
(* The refresh over the time windows *)

\* The person record after async_step_configure_time_windows stored the
\* windows typed into its form.
WithTimeWindows(person, time_windows) ==
    [person EXCEPT !.time_windows = time_windows]

\* Windows typed into the form: a morning from 07:30 to 09:00, the other
\* fields left as the form shows them.
TypedTimeWindows ==
    [DEFAULT_TIME_WINDOWS EXCEPT !["morning_start"] = Strftime(7, 30),
                                 !["morning_end"] = Strftime(9, 0)]

\* The wall-clock readings of the day: the bounds of the windows and the
\* minute before or after them.
WindowClock ==
    << <<5, 59>>, <<6, 0>>, <<7, 29>>, <<7, 30>>, <<9, 0>>, <<9, 1>>,
       <<12, 0>>, <<12, 1>>, <<18, 0>>, <<18, 1>>, <<22, 0>>, <<22, 1>> >>

WindowTimeAt(slot) ==
    [day |-> StartDay, slot |-> slot,
     hour |-> WindowClock[slot][1], minute |-> WindowClock[slot][2]]

\* The entry has one daily chore of some period, assigned to alice, to bob
\* or to both; alice has the default or the typed windows, bob the default
\* ones, and bob may have been removed again in the options flow.
WindowInit ==
    /\ now = WindowTimeAt(1)
    /\ saved = EmptyDict
    /\ last = Op("setup", <<>>, TRUE)
    /\ Quiet
    /\ \E time_windows \in {DEFAULT_TIME_WINDOWS, TypedTimeWindows},
          configured \in {{"alice", "bob"}, {"alice"}},
          time_period \in {CHORE_PERIOD_MORNING, CHORE_PERIOD_AFTERNOON,
                           CHORE_PERIOD_EVENING, CHORE_PERIOD_ALL_DAY},
          assigned_people \in {{"alice"}, {"bob"}, {"alice", "bob"}} :
          LET ppl == [p \in configured |->
                        IF p = "alice"
                        THEN WithTimeWindows(NewPerson(p), time_windows)
                        ELSE NewPerson(p)]
              chs == [c \in {"walk"} |->
                        NewChore(c, assigned_people, time_period, RECURRENCE_DAILY)]
              first == async_update_data(ppl, chs, EmptyDict, now)
          IN /\ people = ppl
             /\ chores = chs
             /\ chore_instances = first.store
             /\ events = first.events
             /\ switches = SwitchEntities(first.store)

\* The clock shows its next reading; nothing of the program runs.
Elapse ==
    /\ now.slot < Len(WindowClock)
    /\ now' = WindowTimeAt(now.slot + 1)
    /\ events' = <<>>
    /\ last' = Op("advance", <<>>, TRUE)
    /\ UNCHANGED <<people, chores, chore_instances, saved, switches,
                   calls, refresh_requested>>

WindowNext ==
    \/ Tick
    \/ Elapse
    \/ CompleteChore
    \/ ReAdd

WindowSpec == WindowInit /\ [][WindowNext]_vars

-----------------------------------------------------------------------------
(* The engine over the options an entry may hold *)

\* A recurrence type that _calculate_next_due_date has no branch for and
\* that is not one of the four of const.py.
RECURRENCE_YEARLY == "yearly"

\* A chore record of the entry's options: the keys async_step_add_chore
\* writes, with the enabled flag the generator reads.
OptionChore(chore_id, assigned_people, time_period, recurrence_type, enabled) ==
    [NewChore(chore_id, assigned_people, time_period, recurrence_type)
        EXCEPT !.enabled = enabled]

\* The options of the entry: the daily all-day chore "dishes" of alice and
\* bob or that chore with one thing otherwise (an empty assignee list, which
\* the multiple select takes, a morning period, another recurrence type, the
\* enabled flag off) and, after it in the dict, the daily morning chore
\* "walk" of alice.
EngineOptions ==
    {[c \in {"dishes", "walk"} |->
        IF c = "dishes"
        THEN OptionChore(c, v.assigned_people, v.time_period,
                         v.recurrence_type, v.enabled)
        ELSE NewChore(c, {"alice"}, CHORE_PERIOD_MORNING, RECURRENCE_DAILY)] :
        v \in {[assigned_people |-> a, time_period |-> t,
                recurrence_type |-> r, enabled |-> e] :
                  a \in {{}, {"alice"}, {"alice", "bob"}},
                  t \in {CHORE_PERIOD_ALL_DAY, CHORE_PERIOD_MORNING},
                  r \in {RECURRENCE_DAILY, RECURRENCE_WEEKLY, RECURRENCE_MONTHLY,
                         RECURRENCE_ONCE, RECURRENCE_YEARLY},
                  e \in BOOLEAN}}

\* The entry is set up with some options and nothing stored yet.
EngineInit ==
    /\ now = TimeAt(StartDay, 1)
    /\ saved = EmptyDict
    /\ last = Op("setup", <<>>, TRUE)
    /\ Quiet
    /\ \E chs \in EngineOptions :
          LET ppl == [p \in PersonIds |-> NewPerson(p)]
              first == async_update_data(ppl, chs, EmptyDict, now)
          IN /\ people = ppl
             /\ chores = chs
             /\ chore_instances = first.store
             /\ events = first.events
             /\ switches = SwitchEntities(first.store)

\* The chorenet.complete_chore service called for alice with the id of an
\* instance.
AliceCompletes ==
    \E chore_instance_id \in DOMAIN chore_instances :
        Completion("complete_chore", chore_instance_id, "alice")

\* The integration is removed and added again, and the chore "dishes" is
\* added with other assigned people than before; the storage file is still
\* there.
Reassign ==
    /\ \E assigned_people \in {{}, {"alice"}, {"alice", "bob"}} :
          /\ assigned_people # chores["dishes"].assigned_people
          /\ SetupEntry(people,
                        [chores EXCEPT !["dishes"].assigned_people = assigned_people],
                        saved)
    /\ last' = Op("readd", <<>>, TRUE)

EngineNext ==
    \/ Tick
    \/ Advance
    \/ AliceCompletes

EngineSpec == EngineInit /\ [][EngineNext]_vars

\* The first day of the entry, with the chore assigned anew any number of
\* times.
ReassignNext ==
    \/ Tick
    \/ AliceCompletes
    \/ Reassign

ReassignSpec == EngineInit /\ [][ReassignNext]_vars

-----------------------------------------------------------------------------
(* The instance generator on its own *)

\* self._generate_chore_instances(chore_id, chore, now) for one chore of the
\* options, as the refresh calls it before it marks and activates.
Generate ==
    /\ \E chore_id \in DOMAIN chores :
          /\ chore_instances' =
                generate_chore_instances(chore_instances, chore_id,
                                         chores[chore_id], now)
          /\ last' = Op("generate_chore_instances", <<chore_id>>, TRUE)
    /\ events' = <<>>
    /\ UNCHANGED <<people, chores, now, saved, switches, calls,
                   refresh_requested>>

GeneratorNext ==
    \/ Generate
    \/ Tick
    \/ Advance
    \/ AliceCompletes

GeneratorSpec == EngineInit /\ [][GeneratorNext]_vars

-----------------------------------------------------------------------------
(* The recurrence calculator over a year *)

\* A chore with a weekly rule for a weekday or a monthly rule for a day of
\* the month, the two keys the calculator reads from the rule.
RuleChore(recurrence_type, weekday, day) ==
    [NewChore("trash", {"alice"}, CHORE_PERIOD_ALL_DAY, recurrence_type)
        EXCEPT !.recurrence = [type |-> recurrence_type,
                               weekday |-> weekday,
                               day |-> day]]

\* The rules the calculator is applied to: every weekday, and every day of
\* the month that every month has.
Rules ==
    {RuleChore(RECURRENCE_WEEKLY, weekday, 1) : weekday \in 0..6}
       \cup {RuleChore(RECURRENCE_MONTHLY, 0, day) : day \in 1..28}

\* Any reading of the clock on any day of 2026, and a coordinator with one
\* chore of one of the rules.
CalendarInit ==
    /\ \E d \in Ordinal(0, 1, 1) .. Ordinal(0, 12, 31), slot \in 1..Len(ClockSlots) :
          now = TimeAt(d, slot)
    /\ \E chore \in Rules : chores = [c \in {"trash"} |-> chore]
    /\ people = [p \in {"alice"} |-> NewPerson(p)]
    /\ chore_instances = EmptyDict
    /\ saved = EmptyDict
    /\ switches = {}
    /\ events = <<>>
    /\ last = Op("setup", <<>>, TRUE)
    /\ Quiet

\* self._calculate_next_due_date(chore, now), its result kept as the return
\* value of the last operation.
Calculate ==
    /\ \E c \in DOMAIN chores :
          last' = Op("calculate_next_due_date", <<c>>,
                     calculate_next_due_date(chores[c], now))
    /\ UNCHANGED <<people, chores, chore_instances, now, saved, switches,
                   events, calls, refresh_requested>>

CalendarNext == Calculate

CalendarSpec == CalendarInit /\ [][CalendarNext]_vars

-----------------------------------------------------------------------------
(* Vocabulary of the properties *)

\* The events of a type among those the last operation fired.
EventsOf(evs, type) == {n \in 1..Len(evs) : evs[n].type = type}

\* The instances that are pending or overdue.
Active(store) == {k \in DOMAIN store : store[k].status \in ActiveStatuses}

\* Every assignee of the instance has its flag set to true.
EveryAssigneeTrue(instance) ==
    \A a \in instance.assigned_people :
        a \in DOMAIN instance.completions /\ instance.completions[a]

EnabledWith(c, type) == chores[c].enabled /\ chores[c].recurrence.type = type

-----------------------------------------------------------------------------
(* C1 *)

\* C1: the store holds at most one instance per (chore_id, calendar date);
\* running the generator twice at the same time for an enabled daily chore
\* leaves exactly one instance for that day, and neither run changes a record
\* that the store already held (status and completions included).
C1_OneInstancePerChoreAndDay ==
    /\ \A k1, k2 \in DOMAIN chore_instances :
          (/\ chore_instances[k1].chore_id = chore_instances[k2].chore_id
           /\ chore_instances[k1].due_date = chore_instances[k2].due_date)
          => k1 = k2
    /\ \A c \in DOMAIN chores :
          EnabledWith(c, RECURRENCE_DAILY) =>
             LET once == generate_chore_instances(chore_instances, c, chores[c], now)
                 twice == generate_chore_instances(once, c, chores[c], now)
             IN /\ Cardinality({k \in DOMAIN twice :
                                   /\ twice[k].chore_id = c
                                   /\ twice[k].due_date = now.day}) = 1
                /\ \A k \in DOMAIN chore_instances :
                      k \in DOMAIN twice /\ twice[k] = chore_instances[k]

\* A refresh has run on a day whose daily instance already carried a
\* completion, next to the instance of the day before.
C1_Witness ==
    /\ last.op = "tick"
    /\ now.day > StartDay
    /\ \E k \in DOMAIN chore_instances :
          /\ chore_instances[k].due_date = now.day
          /\ chore_instances[k].completions # EmptyDict
          /\ EnabledWith(chore_instances[k].chore_id, RECURRENCE_DAILY)
    /\ \E k \in DOMAIN chore_instances : chore_instances[k].due_date < now.day

-----------------------------------------------------------------------------
(* C2 *)

\* C2: the keys of every instance's completions map are among that
\* instance's assigned_people.
C2_CompletionKeysAssigned ==
    \A k \in DOMAIN chore_instances :
        DOMAIN chore_instances[k].completions
            \subseteq chore_instances[k].assigned_people

-----------------------------------------------------------------------------
(* C3 *)

\* The step is the call complete_chore(i, p).
IsCompleteCall(i, p) == Completion("complete_chore", i, p)

\* C3: complete_chore(i, p) on an existing instance records
\* completions[p] = true; if every assignee then maps to true the status is
\* completed and one chore-completed event carries the chore and the
\* instance, otherwise the status is unchanged and no chore-completed event
\* is fired.
C3_CompleteChoreEffect ==
    [][\A i \in DOMAIN chore_instances, p \in PersonIds :
          IsCompleteCall(i, p) =>
             LET before == chore_instances[i]
                 after == chore_instances'[i]
                 fired == EventsOf(events', EVENT_CHORE_COMPLETED)
             IN /\ last'.ret = TRUE
                /\ p \in DOMAIN after.completions /\ after.completions[p] = TRUE
                /\ IF EveryAssigneeTrue(after)
                   THEN /\ after.status = CHORE_STATUS_COMPLETED
                        /\ Cardinality(fired) = 1
                        /\ \A n \in fired :
                              /\ events'[n].chore = Get(chores, before.chore_id)
                              /\ events'[n].instances = {i}
                   ELSE /\ after.status = before.status
                        /\ fired = {}]_vars

\* Of the assignees alice and bob only alice has completed: the instance is
\* still pending and completions is {alice: true}.
C3_Witness ==
    /\ last.op = "complete_chore"
    /\ last.ret = TRUE
    /\ last.args[2] = "alice"
    /\ last.args[1] \in DOMAIN chore_instances
    /\ LET instance == chore_instances[last.args[1]]
       IN /\ instance.assigned_people = {"alice", "bob"}
          /\ instance.status = CHORE_STATUS_PENDING
          /\ instance.completions = ("alice" :> TRUE)
    /\ EventsOf(events, EVENT_CHORE_COMPLETED) = {}

-----------------------------------------------------------------------------
(* C4 *)

\* C4: a complete_chore call for a person whose flag is already true fires
\* no chore-completed event (only the call that flips the last outstanding
\* assignee does).
C4_RedundantCompleteIsSilent ==
    [][\A i \in DOMAIN chore_instances, p \in PersonIds :
          (/\ IsCompleteCall(i, p)
           /\ GetOr(chore_instances[i].completions, p, FALSE))
          => EventsOf(events', EVENT_CHORE_COMPLETED) = {}]_vars

-----------------------------------------------------------------------------
(* C5 *)

\* C5: when the call of the last outstanding assignee p completes the
\* instance and p has no other pending or overdue instance, the call fires
\* exactly one person-completed event for p besides the chore-completed
\* event.
C5_LastAssigneeFiresPersonCompleted ==
    [][\A i \in DOMAIN chore_instances, p \in PersonIds :
          (/\ IsCompleteCall(i, p)
           /\ p \in DOMAIN people
           /\ p \in chore_instances[i].assigned_people
           /\ chore_instances[i].status \in ActiveStatuses
           /\ ~GetOr(chore_instances[i].completions, p, FALSE)
           /\ chore_instances'[i].status = CHORE_STATUS_COMPLETED
           /\ \A k \in Active(chore_instances) \ {i} :
                 p \notin chore_instances[k].assigned_people)
          => /\ Cardinality(EventsOf(events', EVENT_CHORE_COMPLETED)) = 1
             /\ Cardinality({n \in EventsOf(events', EVENT_PERSON_COMPLETED) :
                                events'[n].person = {p}}) = 1]_vars

-----------------------------------------------------------------------------
(* C6 *)

\* C6: at the end of a refresh the all-chores-completed event has been
\* fired by it exactly if some instance is pending or overdue and every such
\* instance has every one of its assignees marked true; the event carries
\* exactly those instances.
C6_AllCompletedIffAssigneesDone ==
    last.op = "tick" =>
       LET fired == EventsOf(events, EVENT_ALL_CHORES_COMPLETED)
           active == Active(chore_instances)
       IN /\ fired # {} <=>
                (/\ active # {}
                 /\ \A k \in active : EveryAssigneeTrue(chore_instances[k]))
          /\ \A n \in fired : events[n].instances = active

-----------------------------------------------------------------------------
(* C7 *)

\* C7: an enabled weekly chore gets its instance once its due day arrives:
\* after a refresh on the target weekday the store holds the instance of
\* the chore due that day.
C7_WeeklyInstanceOnDueDay ==
    \A c \in DOMAIN chores :
        (/\ EnabledWith(c, RECURRENCE_WEEKLY)
         /\ last.op = "tick"
         /\ Weekday(now.day) = chores[c].recurrence.weekday)
        => InstanceKey(c, now.day) \in DOMAIN chore_instances

-----------------------------------------------------------------------------
(* C8 *)

\* C8: an enabled chore of recurrence once behaves like a daily chore until
\* its first instance exists: a refresh that finds no instance of the chore
\* creates one due today.
C8_OnceGeneratesFirstInstance ==
    \A c \in DOMAIN chores :
        (EnabledWith(c, RECURRENCE_ONCE) /\ last.op = "tick")
        => \E k \in DOMAIN chore_instances :
              /\ chore_instances[k].chore_id = c
              /\ chore_instances[k].due_date <= now.day

-----------------------------------------------------------------------------
(* C9 *)

\* C9: for an enabled daily chore of period all_day, a refresh on day D that
\* finds no instance for D leaves the instance keyed chore_D in the store
\* with status pending.
C9_DailyAllDayPendingInOneTick ==
    [][Tick =>
         \A c \in DOMAIN chores :
            (/\ EnabledWith(c, RECURRENCE_DAILY)
             /\ chores[c].time_period = CHORE_PERIOD_ALL_DAY
             /\ InstanceKey(c, now.day) \notin DOMAIN chore_instances)
            => /\ InstanceKey(c, now.day) \in DOMAIN chore_instances'
               /\ chore_instances'[InstanceKey(c, now.day)].status
                     = CHORE_STATUS_PENDING
               /\ chore_instances'[InstanceKey(c, now.day)].due_date = now.day]_vars

\* A refresh created today's instance of the daily all-day chore: it is
\* pending, and no switch exists for it, so no set-up of the entry made it.
C9_Witness ==
    /\ last.op = "tick"
    /\ now.day > StartDay
    /\ \E c \in DOMAIN chores :
          /\ EnabledWith(c, RECURRENCE_DAILY)
          /\ chores[c].time_period = CHORE_PERIOD_ALL_DAY
          /\ InstanceKey(c, now.day) \in DOMAIN chore_instances
          /\ chore_instances[InstanceKey(c, now.day)].status = CHORE_STATUS_PENDING
          /\ chore_instances[InstanceKey(c, now.day)].completions = EmptyDict
          /\ \A sw \in switches : sw[1] # InstanceKey(c, now.day)

-----------------------------------------------------------------------------
(* C10 *)

\* C10 as claimed: a refresh on a date after the due date of a pending
\* instance makes that instance overdue, whatever the instance, and no
\* refresh makes an overdue instance pending.
C10_EveryPendingPastDueBecomesOverdue ==
    [][Tick =>
         \A k \in DOMAIN chore_instances :
            /\ (/\ chore_instances[k].status = CHORE_STATUS_PENDING
                /\ now.day > chore_instances[k].due_date)
               => chore_instances'[k].status = CHORE_STATUS_OVERDUE
            /\ chore_instances[k].status = CHORE_STATUS_OVERDUE
               => chore_instances'[k].status # CHORE_STATUS_PENDING]_vars

\* C10 amended: a refresh on a date after the due date of a pending instance
\* whose chore is configured makes that instance overdue, whatever the time
\* period of the chore; a pending instance whose chore is not configured
\* stays pending; no refresh makes an overdue instance pending.
C10_PendingPastDueOfConfiguredChoreBecomesOverdue ==
    [][Tick =>
         \A k \in DOMAIN chore_instances :
            /\ (/\ chore_instances[k].status = CHORE_STATUS_PENDING
                /\ now.day > chore_instances[k].due_date)
               => chore_instances'[k].status =
                     IF chore_instances[k].chore_id \in DOMAIN chores
                     THEN CHORE_STATUS_OVERDUE
                     ELSE CHORE_STATUS_PENDING
            /\ chore_instances[k].status = CHORE_STATUS_OVERDUE
               => chore_instances'[k].status # CHORE_STATUS_PENDING]_vars

\* A refresh has left an instance of a configured chore overdue on the day
\* after its due date, and an instance of a chore with a morning period too.
C10_Witness ==
    /\ last.op = "tick"
    /\ \E k \in DOMAIN chore_instances :
          /\ chore_instances[k].status = CHORE_STATUS_OVERDUE
          /\ chore_instances[k].due_date < now.day
          /\ chore_instances[k].chore_id \in DOMAIN chores
          /\ chores[chore_instances[k].chore_id].time_period = CHORE_PERIOD_MORNING

-----------------------------------------------------------------------------
(* C11 *)

-----------------------------------------------------------------------------
(* C12 *)

\* The events hold a person-completed event for p.
PersonEventFor(evs, p) ==
    \E n \in EventsOf(evs, EVENT_PERSON_COMPLETED) : evs[n].person = {p}

\* p is assigned to a pending or overdue instance and its flag is true on
\* every pending or overdue instance assigned to it.
AllFlagged(store, p) ==
    LET mine == {k \in Active(store) : p \in store[k].assigned_people}
    IN /\ mine # {}
       /\ \A k \in mine : GetOr(store[k].completions, p, FALSE)

\* With this step the call complete_chore(i, p) on an existing instance is
\* past its instance update and past the place of its person-level check.
PastPersonLevel(p) ==
    \/ \E op \in {"complete_chore", "turn_on"}, i \in DOMAIN chore_instances :
          BeginCompletion(op, i, p) /\ calls'[p].pc # "chore_automation"
    \/ /\ calls[p].pc = "chore_automation"
       /\ AutomationReturned(p) \/ AutomationRaised(p)

\* C12: complete_chore(i, p) emits a person-completed event for p exactly if,
\* after the instance update of the call, p has at least one pending or
\* overdue instance assigned and p's flag is true on each of them, whether
\* or not instance i became completed.
C12_PersonCompletedIffAllFlagged ==
    [][\A p \in PersonIds :
          PastPersonLevel(p) =>
             (PersonEventFor(events', p) <=> AllFlagged(chore_instances', p))]_vars

-----------------------------------------------------------------------------
(* C13 *)

\* C13: no person-completed event is ever emitted for a person who is
\* assigned to no chore instance.
C13_NoPersonEventWithoutAssignment ==
    \A n \in EventsOf(events, EVENT_PERSON_COMPLETED) :
        \A p \in events[n].person :
            \E k \in DOMAIN chore_instances :
                p \in chore_instances[k].assigned_people

\* complete_chore has returned True for a configured person who is assigned
\* to no instance, and has emitted no person-completed event.
C13_Witness ==
    /\ last.op = "complete_chore"
    /\ last.ret = TRUE
    /\ last.args[2] \in DOMAIN people
    /\ \A k \in DOMAIN chore_instances :
          last.args[2] \notin chore_instances[k].assigned_people
    /\ EventsOf(events, EVENT_PERSON_COMPLETED) = {}

-----------------------------------------------------------------------------
(* C14 *)

\* C14: complete_chore with an id that is not in the store returns False,
\* changes no instance, emits no event, triggers no automation and does not
\* save; the refresh that follows computes what it would have computed
\* without the call.
C14_UnknownInstanceChangesNothing ==
    [][\A p \in PersonIds :
          IsCompleteCall(UnknownKey, p) =>
             /\ last'.ret = FALSE
             /\ chore_instances' = chore_instances
             /\ events' = <<>>
             /\ saved' = saved
             /\ async_update_data(people', chores', chore_instances', now')
                   = async_update_data(people, chores, chore_instances, now)]_vars

\* complete_chore has returned False while the store holds instances that
\* the file does not hold.
C14_Witness ==
    /\ last.op = "complete_chore"
    /\ last.ret = FALSE
    /\ last.args[1] = UnknownKey
    /\ chore_instances # EmptyDict
    /\ saved # chore_instances
    /\ events = <<>>

-----------------------------------------------------------------------------
(* C15 *)

\* C15: when the awaited invocation of a chore's or a person's completion
\* automation fails, complete_chore goes on to the person-level check, to
\* the save and to its return of True: after the failure the call is at the
\* await of the person's automation or at the await of the save.
C15_AutomationFailureIsIsolated ==
    [][\A p \in PersonIds :
          AutomationRaised(p) =>
             calls'[p].pc \in {"person_automation", "save"}]_vars

-----------------------------------------------------------------------------
(* C16 *)

\* C16: a complete_chore call that returns True, and an un-complete of an
\* existing instance, saves once, after its update of the instance: the
\* file then holds the store with the flag the call wrote.
C16_SaveHoldsTheMutation ==
    [][/\ \A i \in DOMAIN chore_instances, p \in PersonIds :
             (IsCompleteCall(i, p) /\ last'.ret = TRUE) =>
                /\ saved' = chore_instances'
                /\ saved'[i].completions[p] = TRUE
       /\ \A sw \in switches :
             (Uncompletion(sw) /\ sw[1] \in DOMAIN chore_instances) =>
                /\ saved' = chore_instances'
                /\ saved'[sw[1]].completions[sw[2]] = FALSE]_vars

\* An un-complete has been saved after a completion by the other assignee
\* and a refresh of a later day that no call had saved yet.
C16_Witness ==
    /\ last.op = "turn_off"
    /\ saved = chore_instances
    /\ LET instance == saved[last.args[1]]
       IN /\ instance.completions[last.args[2]] = FALSE
          /\ \E p \in instance.assigned_people : GetOr(instance.completions, p, FALSE)
    /\ \E k \in DOMAIN saved : saved[k].due_date = now.day /\ now.day > StartDay

-----------------------------------------------------------------------------
(* C17 *)

\* C17: when the write of the store fails during complete_chore or an
\* un-complete, the flag and the status the call has written stay: the store
\* after the failed save is the store before it, which is the store after a
\* save that succeeds.
C17_FailedSaveKeepsTheMutation ==
    [][\A p \in PersonIds :
          SaveEnded(p, FALSE) =>
             /\ chore_instances' = chore_instances
             /\ chore_instances'
                   = save_data(chore_instances, saved, TRUE).store]_vars

\* The save of a completion has failed: the store holds the flag, the file
\* does not.
C17_Witness ==
    /\ last.op = "save_failed"
    /\ last.args[1] \in DOMAIN chore_instances
    /\ GetOr(chore_instances[last.args[1]].completions, last.args[2], FALSE)
    /\ \/ last.args[1] \notin DOMAIN saved
       \/ ~GetOr(saved[last.args[1]].completions, last.args[2], FALSE)

-----------------------------------------------------------------------------
(* C18 *)

\* C18: however refreshes, complete_chore calls and un-completes interleave
\* at their awaits, a flag that is true stays true until the un-complete of
\* that instance and person, every instance stays the instance of its key,
\* and no two instances have the same chore and date.
C18_NoLostCompletionNoSecondInstance ==
    [][/\ \A k \in DOMAIN chore_instances :
             /\ k \in DOMAIN chore_instances'
             /\ chore_instances'[k].chore_id = chore_instances[k].chore_id
             /\ chore_instances'[k].due_date = chore_instances[k].due_date
             /\ \A p \in PersonIds :
                   (/\ GetOr(chore_instances[k].completions, p, FALSE)
                    /\ ~GetOr(chore_instances'[k].completions, p, FALSE))
                   => BeginUncompletion(<<k, p>>)
       /\ \A k1, k2 \in DOMAIN chore_instances' :
             (/\ chore_instances'[k1].chore_id = chore_instances'[k2].chore_id
              /\ chore_instances'[k1].due_date = chore_instances'[k2].due_date)
             => k1 = k2]_vars

\* A refresh has run while the call of bob waits at its save and the call of
\* alice, which completed the same instance, waits at the chore's
\* automation: both flags are still true.
C18_Witness ==
    /\ last.op = "tick"
    /\ calls["bob"].pc = "save"
    /\ calls["alice"].pc = "chore_automation"
    /\ calls["alice"].id = calls["bob"].id
    /\ LET instance == chore_instances[calls["alice"].id]
       IN /\ instance.due_date = now.day
          /\ GetOr(instance.completions, "alice", FALSE)
          /\ GetOr(instance.completions, "bob", FALSE)

-----------------------------------------------------------------------------
(* C19 *)

\* C19: every completion through the service or the switch that succeeds,
\* and every un-complete, ends with a request for a refresh, and the request
\* stands until a run of the full refresh takes it.
C19_CommandRequestsRefresh ==
    [][/\ \A p \in PersonIds, written \in BOOLEAN :
             SaveEnded(p, written) => refresh_requested'
       /\ (refresh_requested /\ ~refresh_requested') => Tick]_vars

\* The un-complete made through a switch has ended and its refresh is
\* requested and not yet run.
C19_Witness ==
    /\ last.op \in {"saved", "save_failed"}
    /\ refresh_requested
    /\ \E sw \in switches : sw = last.args
    /\ ~GetOr(chore_instances[last.args[1]].completions, last.args[2], TRUE)

-----------------------------------------------------------------------------
(* C20 *)

\* The minutes since midnight that an "HH:MM" string names.
MinuteOfDay(hhmm) == (hhmm[1] * 10 + hhmm[2]) * 60 + hhmm[4] * 10 + hhmm[5]

\* The start and the end of the person's window for the period, from the
\* person's record or, where the record has none, the default.
WindowOf(person, time_period) ==
    LET start_key == CASE time_period = CHORE_PERIOD_MORNING -> "morning_start"
                       [] time_period = CHORE_PERIOD_AFTERNOON -> "afternoon_start"
                       [] time_period = CHORE_PERIOD_EVENING -> "evening_start"
        end_key == CASE time_period = CHORE_PERIOD_MORNING -> "morning_end"
                     [] time_period = CHORE_PERIOD_AFTERNOON -> "afternoon_end"
                     [] time_period = CHORE_PERIOD_EVENING -> "evening_end"
    IN <<GetOr(person.time_windows, start_key, DEFAULT_TIME_WINDOWS[start_key]),
         GetOr(person.time_windows, end_key, DEFAULT_TIME_WINDOWS[end_key])>>

\* The chore of the instance is configured and is of period all_day, or the
\* window of one of the assigned people contains the current minute.
DueForActivation(instance) ==
    /\ instance.chore_id \in DOMAIN chores
    /\ LET time_period == chores[instance.chore_id].time_period
       IN \/ time_period = CHORE_PERIOD_ALL_DAY
          \/ \E a \in instance.assigned_people \cap DOMAIN people :
                LET window == WindowOf(people[a], time_period)
                    minute == now.hour * 60 + now.minute
                IN /\ MinuteOfDay(window[1]) <= minute
                   /\ minute <= MinuteOfDay(window[2])

\* C20: a refresh makes an inactive instance (one it finds, or one it has
\* just created) pending exactly if the chore of the instance is configured
\* and either its period is all_day or the window for that period of at
\* least one assigned person, with start and end included, contains the
\* current HH:MM; otherwise the instance stays inactive.
C20_ActivatedIffInWindow ==
    [][Tick =>
         /\ \A k \in DOMAIN chore_instances :
               chore_instances[k].status = CHORE_STATUS_INACTIVE =>
                  chore_instances'[k].status =
                     IF DueForActivation(chore_instances[k])
                     THEN CHORE_STATUS_PENDING
                     ELSE CHORE_STATUS_INACTIVE
         /\ \A k \in DOMAIN chore_instances' \ DOMAIN chore_instances :
               chore_instances'[k].status =
                  IF DueForActivation(chore_instances'[k])
                  THEN CHORE_STATUS_PENDING
                  ELSE CHORE_STATUS_INACTIVE]_vars

\* A refresh at 07:30 has made pending the morning instance whose only
\* assignee has a morning window from 07:30 to 09:00.
C20_Witness ==
    /\ last.op = "tick"
    /\ now.hour = 7 /\ now.minute = 30
    /\ \E k \in DOMAIN chore_instances :
          /\ chore_instances[k].status = CHORE_STATUS_PENDING
          /\ chore_instances[k].assigned_people = {"alice"}
          /\ chore_instances[k].chore_id \in DOMAIN chores
          /\ chores[chore_instances[k].chore_id].time_period = CHORE_PERIOD_MORNING
          /\ people["alice"].time_windows["morning_start"] = Strftime(7, 30)

-----------------------------------------------------------------------------
(* C21 *)

\* The instances with no assigned people that the refresh found inactive or
\* has created.
UnassignedBefore(k) ==
    /\ chore_instances'[k].assigned_people = {}
    /\ \/ k \notin DOMAIN chore_instances
       \/ chore_instances[k].status = CHORE_STATUS_INACTIVE

\* C21, as stated: no refresh makes pending an instance whose assigned_people
\* is empty.
C21_UnassignedNeverActivated ==
    [][Tick =>
         \A k \in DOMAIN chore_instances' :
            UnassignedBefore(k) =>
               chore_instances'[k].status = CHORE_STATUS_INACTIVE]_vars

\* C21, amended: a refresh leaves inactive an instance whose assigned_people
\* is empty when the period of its chore is morning, afternoon or evening,
\* and makes it pending when the period is all_day.
C21_UnassignedActivatedOnlyAllDay ==
    [][Tick =>
         \A k \in DOMAIN chore_instances' :
            UnassignedBefore(k) /\ chore_instances'[k].chore_id \in DOMAIN chores =>
               chore_instances'[k].status =
                  IF chores[chore_instances'[k].chore_id].time_period
                        = CHORE_PERIOD_ALL_DAY
                  THEN CHORE_STATUS_PENDING
                  ELSE CHORE_STATUS_INACTIVE]_vars

\* A refresh at 09:00 has made alice's morning chore pending and has left
\* inactive the morning instance that nobody is assigned to.
C21_Witness ==
    /\ last.op = "tick"
    /\ now.hour = 9
    /\ \E k, w \in DOMAIN chore_instances :
          /\ chore_instances[k].assigned_people = {}
          /\ chores[chore_instances[k].chore_id].time_period = CHORE_PERIOD_MORNING
          /\ chore_instances[k].status = CHORE_STATUS_INACTIVE
          /\ chore_instances[w].chore_id = "walk"
          /\ chore_instances[w].due_date = now.day
          /\ chore_instances[w].status = CHORE_STATUS_PENDING

-----------------------------------------------------------------------------
(* C22 *)

\* The instances the step starts from: those the storage file holds when the
\* step sets the entry up again, those of the coordinator otherwise.
HeldBefore ==
    IF last'.op = "readd" THEN saved ELSE chore_instances

-----------------------------------------------------------------------------
(* C23 *)

\* C23: a refresh, a complete_chore call and a turn_off call each leave
\* every key of the store in the store.
C23_EngineNeverDeletes ==
    [][(Tick \/ CompleteChore \/ TurnOff) =>
          DOMAIN chore_instances \subseteq DOMAIN chore_instances']_vars

\* A day after it was created, and after a turn_off call has written a
\* flag into it, the instance of the first day is still in the store,
\* overdue, next to the one of today.
C23_Witness ==
    /\ last.op = "tick"
    /\ now.day > StartDay
    /\ \E k, j \in DOMAIN chore_instances :
          /\ chore_instances[k].due_date = StartDay
          /\ chore_instances[k].status = CHORE_STATUS_OVERDUE
          /\ \E a \in DOMAIN chore_instances[k].completions :
                ~chore_instances[k].completions[a]
          /\ chore_instances[j].due_date = now.day

-----------------------------------------------------------------------------
(* C24 *)

\* The recurrence types _calculate_next_due_date has a branch for.
CalculatedTypes == {RECURRENCE_DAILY, RECURRENCE_WEEKLY, RECURRENCE_MONTHLY}

\* C24: a refresh inserts no instance of a chore whose recurrence type the
\* calculator has no branch for, ends as every refresh does, and has
\* inserted or found the instance of today of every enabled daily chore,
\* also of those that come after such a chore in the dict.
C24_UnknownRecurrenceSkipsOnlyThatChore ==
    [][Tick =>
         /\ \A k \in DOMAIN chore_instances' \ DOMAIN chore_instances :
               chores[chore_instances'[k].chore_id].recurrence.type
                  \in CalculatedTypes
         /\ last'.ret = TRUE
         /\ \A c \in DOMAIN chores :
               chores[c].enabled /\ chores[c].recurrence.type = RECURRENCE_DAILY =>
                  InstanceKey(c, now.day) \in DOMAIN chore_instances']_vars

\* A refresh on the second day has inserted the instance of the daily chore
\* that follows an enabled chore of an unknown recurrence type, and there is
\* no instance of that one.
C24_Witness ==
    /\ last.op = "tick"
    /\ now.day = StartDay + 1
    /\ chores["dishes"].enabled
    /\ chores["dishes"].recurrence.type = RECURRENCE_YEARLY
    /\ InstanceKey("walk", now.day) \in DOMAIN chore_instances
    /\ \A k \in DOMAIN chore_instances : chore_instances[k].chore_id # "dishes"

-----------------------------------------------------------------------------
(* C25 *)

\* The calculator has just been applied to the chore's rule.
Calculated(recurrence_type) ==
    /\ last.op = "calculate_next_due_date"
    /\ chores[last.args[1]].recurrence.type = recurrence_type

\* C25: for a weekly rule the calculator returns one day, from 1 to 7 days
\* after today, that falls on the weekday of the rule: the number of days
\* ahead is weekday - now.weekday(), plus 7 when that is not positive, so on
\* the weekday itself the result is 7 days ahead and never today.
C25_WeeklyIsOneToSevenDaysAhead ==
    Calculated(RECURRENCE_WEEKLY) =>
       LET weekday == chores[last.args[1]].recurrence.weekday
           difference == weekday - Weekday(now.day)
       IN /\ Cardinality(last.ret) = 1
          /\ \A due \in last.ret :
                /\ due - now.day \in 1..7
                /\ Weekday(due) = weekday
                /\ due - now.day = IF difference <= 0 THEN difference + 7
                                   ELSE difference
                /\ Weekday(now.day) = weekday => due = now.day + 7

\* On Monday 2026-02-02 the rule for Monday has given Monday 2026-02-09.
C25_Witness ==
    /\ Calculated(RECURRENCE_WEEKLY)
    /\ now.day = Ordinal(0, 2, 2)
    /\ Weekday(now.day) = 0
    /\ chores[last.args[1]].recurrence.weekday = 0
    /\ last.ret = {Ordinal(0, 2, 9)}

-----------------------------------------------------------------------------
(* C26 *)

\* C26: for a monthly rule with a day from 1 to 28 the calculator returns
\* that day of this month when today's day of the month is not after it,
\* and that day of the next month otherwise, which after December is
\* January of the next year.
C26_MonthlyIsThisOrNextMonth ==
    Calculated(RECURRENCE_MONTHLY) =>
       LET day == chores[last.args[1]].recurrence.day
           today == DateOf(now.day)
           expected ==
              IF today.day <= day
              THEN [year |-> today.year, month |-> today.month, day |-> day]
              ELSE IF today.month = 12
              THEN [year |-> today.year + 1, month |-> 1, day |-> day]
              ELSE [year |-> today.year, month |-> today.month + 1, day |-> day]
       IN /\ Cardinality(last.ret) = 1
          /\ \A due \in last.ret : DateOf(due) = expected

\* On 2026-12-16 the rule for the 15th has given 2027-01-15.
C26_Witness ==
    /\ Calculated(RECURRENCE_MONTHLY)
    /\ DateOf(now.day) = [year |-> 0, month |-> 12, day |-> 16]
    /\ chores[last.args[1]].recurrence.day = 15
    /\ \E due \in last.ret : DateOf(due) = [year |-> 1, month |-> 1, day |-> 15]

-----------------------------------------------------------------------------
(* C27 *)

\* What the generator may insert for the chore now: the key of the chore's
\* next due date, when the chore is enabled, has a next due date, that date
\* is not after now, and the store has no such key yet.
DueToInsert(chore_id) ==
    LET chore == chores[chore_id]
        next_due == calculate_next_due_date(chore, now)
    IN {InstanceKey(chore_id, due) : due \in
          {d \in next_due :
              /\ chore.enabled
              /\ d <= now.day
              /\ InstanceKey(chore_id, d) \notin DOMAIN chore_instances}}

\* C27: the generator, called for a chore, inserts an instance exactly when
\* the chore is enabled, its next due date is not after now and the key of
\* that date is not in the store; the new instance is inactive, has no
\* completions and has the assigned_people of the chore; the instances
\* already there stay as they are, no event is fired, and for a disabled
\* chore the store stays as it is.
C27_GeneratorInsertsDueAbsentEnabled ==
    [][Generate =>
         LET chore_id == last'.args[1]
         IN /\ \A k \in DOMAIN chore_instances :
                  /\ k \in DOMAIN chore_instances'
                  /\ chore_instances'[k] = chore_instances[k]
            /\ DOMAIN chore_instances' \ DOMAIN chore_instances
                  = DueToInsert(chore_id)
            /\ \A k \in DOMAIN chore_instances' \ DOMAIN chore_instances :
                  /\ chore_instances'[k].chore_id = chore_id
                  /\ chore_instances'[k].due_date = k[2]
                  /\ chore_instances'[k].status = CHORE_STATUS_INACTIVE
                  /\ chore_instances'[k].completions = EmptyDict
                  /\ chore_instances'[k].assigned_people
                        = chores[chore_id].assigned_people
            /\ events' = <<>>
            /\ ~chores[chore_id].enabled =>
                  chore_instances' = chore_instances]_vars

\* On the second day the generator has inserted the instance of the day of
\* the all-day chore of alice and bob, inactive and without completions,
\* next to the instance of the first day.
C27_Witness ==
    /\ last.op = "generate_chore_instances"
    /\ last.args = <<"dishes">>
    /\ now.day = StartDay + 1
    /\ chores["dishes"].time_period = CHORE_PERIOD_ALL_DAY
    /\ InstanceKey("dishes", StartDay) \in DOMAIN chore_instances
    /\ InstanceKey("dishes", now.day) \in DOMAIN chore_instances
    /\ LET instance == chore_instances[InstanceKey("dishes", now.day)]
       IN /\ instance.status = CHORE_STATUS_INACTIVE
          /\ instance.completions = EmptyDict
          /\ instance.assigned_people = {"alice", "bob"}

-----------------------------------------------------------------------------
(* C28 *)

\* The instances the step has taken from inactive, or from not being there,
\* to pending.
WentPending ==
    {k \in DOMAIN chore_instances' :
        /\ chore_instances'[k].status = CHORE_STATUS_PENDING
        /\ \/ k \notin DOMAIN chore_instances
           \/ chore_instances[k].status = CHORE_STATUS_INACTIVE}

\* C28: a refresh that has made at least one instance pending fires one
\* chores-activated event, which carries exactly the instances it has made
\* pending; a refresh that has made none pending fires no such event.
C28_OneActivationEventPerRefresh ==
    [][Tick =>
         LET fired == EventsOf(events', EVENT_CHORES_ACTIVATED)
         IN IF WentPending # {}
            THEN /\ Cardinality(fired) = 1
                 /\ \A n \in fired : events'[n].instances = WentPending
            ELSE fired = {}]_vars

\* A refresh at 09:00 has made pending two morning instances that were
\* inactive at 05:00, and its one event carries both.
C28_Witness ==
    /\ last.op = "tick"
    /\ now.hour = 9
    /\ \E n \in EventsOf(events, EVENT_CHORES_ACTIVATED) :
          /\ events[n].instances
                = {InstanceKey("dishes", now.day), InstanceKey("walk", now.day)}
          /\ \A k \in events[n].instances :
                chore_instances[k].status = CHORE_STATUS_PENDING
    /\ chores["dishes"].time_period = CHORE_PERIOD_MORNING

-----------------------------------------------------------------------------
(* C29 *)

\* One step of the refresh applied to every configured chore in turn, from
\* position i of the order, before anything else is done.
RECURSIVE ForAllChores(_, _, _, _, _)
ForAllChores(step(_, _, _, _), chs, store, nw, i) ==
    IF i > Len(ChoreOrder) THEN store
    ELSE LET chore_id == ChoreOrder[i]
         IN ForAllChores(step, chs,
                         IF chore_id \in DOMAIN chs
                         THEN step(store, chore_id, chs[chore_id], nw)
                         ELSE store,
                         nw, i + 1)

\* The refresh in phases: generation for all chores, then overdue marking
\* for all chores, then activation, then the aggregate check.
InPhases(ppl, chs, store, nw) ==
    LET generated == ForAllChores(generate_chore_instances, chs, store, nw, 1)
        marked == ForAllChores(mark_overdue_chores, chs, generated, nw, 1)
        activated == check_activated_chores(ppl, chs, marked, nw)
    IN [store |-> activated.store,
        events |-> activated.events \o check_all_chores_completed(activated.store)]

\* C29: the store and the events a refresh leaves are those of the refresh
\* in phases.
C29_RefreshEqualsPhases ==
    [][Tick =>
         LET phases == InPhases(people, chores, chore_instances, now)
         IN /\ chore_instances' = phases.store
            /\ events' = phases.events]_vars

\* A refresh on the second day has generated and activated the instance of
\* the day of the first chore and has marked overdue the instance of the
\* first day of the second chore.
C29_Witness ==
    /\ last.op = "tick"
    /\ now.day = StartDay + 1
    /\ \E n \in EventsOf(events, EVENT_CHORES_ACTIVATED) :
          InstanceKey("dishes", now.day) \in events[n].instances
    /\ InstanceKey("walk", StartDay) \in DOMAIN chore_instances
    /\ chore_instances[InstanceKey("walk", StartDay)].status = CHORE_STATUS_OVERDUE
    /\ InstanceKey("dishes", StartDay) \in DOMAIN chore_instances
    /\ chore_instances[InstanceKey("dishes", StartDay)].status = CHORE_STATUS_OVERDUE

-----------------------------------------------------------------------------
(* C30 *)

\* C30: a refresh keeps every instance it finds, with its chore_id, its
\* due_date, its assigned_people and its completions; the status of an
\* instance stays or goes from inactive to pending or from pending to
\* overdue, and that of a completed or an overdue instance stays.
C30_RefreshOnlyInsertsAndAdvancesStatus ==
    [][Tick =>
         \A k \in DOMAIN chore_instances :
            /\ k \in DOMAIN chore_instances'
            /\ LET before == chore_instances[k]
                   after == chore_instances'[k]
               IN /\ after.chore_id = before.chore_id
                  /\ after.due_date = before.due_date
                  /\ after.assigned_people = before.assigned_people
                  /\ after.completions = before.completions
                  /\ \/ after.status = before.status
                     \/ /\ before.status = CHORE_STATUS_INACTIVE
                        /\ after.status = CHORE_STATUS_PENDING
                     \/ /\ before.status = CHORE_STATUS_PENDING
                        /\ after.status = CHORE_STATUS_OVERDUE
                  /\ before.status \in {CHORE_STATUS_COMPLETED, CHORE_STATUS_OVERDUE}
                        => after.status = before.status]_vars

\* A refresh on the second day has inserted the instances of the day, has
\* made overdue the pending instance of the first day with its one flag,
\* and has left the completed one of the first day completed.
C30_Witness ==
    /\ last.op = "tick"
    /\ now.day = StartDay + 1
    /\ \E k, j, n \in DOMAIN chore_instances :
          /\ chore_instances[k].due_date = StartDay
          /\ chore_instances[k].status = CHORE_STATUS_COMPLETED
          /\ chore_instances[k].completions = [p \in {"alice"} |-> TRUE]
          /\ chore_instances[j].due_date = StartDay
          /\ chore_instances[j].status = CHORE_STATUS_OVERDUE
          /\ chore_instances[j].completions = [p \in {"alice"} |-> TRUE]
          /\ chore_instances[n].due_date = now.day

-----------------------------------------------------------------------------
(* C31 *)

\* C31: every completed instance has the flag of each of its assigned
\* people set to true.
C31_CompletedHasEveryFlag ==
    \A k \in DOMAIN chore_instances :
       chore_instances[k].status = CHORE_STATUS_COMPLETED =>
          EveryAssigneeTrue(chore_instances[k])

\* A complete_chore call has completed an instance of two assignees and
\* saved it, and both flags are true.
C31_Witness ==
    /\ last.op = "complete_chore"
    /\ saved # EmptyDict
    /\ \E k \in DOMAIN chore_instances \cap DOMAIN saved :
          /\ chore_instances[k].status = CHORE_STATUS_COMPLETED
          /\ chore_instances[k].assigned_people = {"alice", "bob"}
          /\ EveryAssigneeTrue(chore_instances[k])
          /\ k = last.args[1]

-----------------------------------------------------------------------------
(* C32 *)

\* The instances the step has made completed.
BecameCompleted ==
    {k \in DOMAIN chore_instances \cap DOMAIN chore_instances' :
        /\ chore_instances[k].status # CHORE_STATUS_COMPLETED
        /\ chore_instances'[k].status = CHORE_STATUS_COMPLETED}

\* C32, as stated: an instance that a step makes completed was pending or
\* overdue before, never inactive.
C32_CompletedOnlyFromActive ==
    [][\A k \in BecameCompleted :
          chore_instances[k].status \in ActiveStatuses]_vars

\* C32, amended: an instance is made completed only by a complete_chore
\* call for that instance that returns true and leaves the flag of every
\* assigned person true; the call does so from inactive as from pending or
\* overdue.
C32_CompletedOnlyByCompleteChore ==
    [][\A k \in BecameCompleted :
          /\ last'.op = "complete_chore"
          /\ last'.args[1] = k
          /\ last'.ret = TRUE
          /\ EveryAssigneeTrue(chore_instances'[k])
          /\ chore_instances[k].status
                \in ActiveStatuses \cup {CHORE_STATUS_INACTIVE}]_vars

\* At 05:00 of the first day, before alice's morning window, a
\* complete_chore call has completed the morning instance, which no refresh
\* had activated.
C32_Witness ==
    /\ last.op = "complete_chore"
    /\ now = TimeAt(StartDay, 1)
    /\ last.args[1] \in DOMAIN chore_instances
    /\ chore_instances[last.args[1]].status = CHORE_STATUS_COMPLETED
    /\ chore_instances[last.args[1]].chore_id \in DOMAIN chores
    /\ chores[chore_instances[last.args[1]].chore_id].time_period
          = CHORE_PERIOD_MORNING
    /\ switches = {}

-----------------------------------------------------------------------------
(* C33 *)

\* The pending instances of configured chores whose due date is before the
\* date of the clock.
PendingPastDue(store) ==
    {k \in DOMAIN store :
        /\ store[k].chore_id \in DOMAIN chores
        /\ store[k].status = CHORE_STATUS_PENDING
        /\ store[k].due_date < now.day}

\* C33, as stated: after a refresh no instance of a configured chore is
\* pending with a due date before the date of the refresh.
C33_NoPendingPastDueAfterRefresh ==
    last.op = "tick" => PendingPastDue(chore_instances) = {}

\* C33, amended: after a refresh the only instances of configured chores
\* that are pending with a due date before the date of the refresh are those
\* this refresh has activated, the overdue marking running before the
\* activation; an instance that was pending past its due date before the
\* refresh is overdue after it.
C33_PendingPastDueOnlyIfJustActivated ==
    [][Tick =>
         /\ \A k \in PendingPastDue(chore_instances') :
               /\ k \in DOMAIN chore_instances
               /\ chore_instances[k].status = CHORE_STATUS_INACTIVE
         /\ \A k \in PendingPastDue(chore_instances) :
               chore_instances'[k].status = CHORE_STATUS_OVERDUE]_vars

\* A refresh at 09:00 of the second day has activated the morning instance
\* of the first day, which ends the refresh pending.
C33_Witness ==
    /\ last.op = "tick"
    /\ now.day = StartDay + 1
    /\ now.hour = 9
    /\ InstanceKey("walk", StartDay) \in PendingPastDue(chore_instances)
    /\ \E n \in EventsOf(events, EVENT_CHORES_ACTIVATED) :
          InstanceKey("walk", StartDay) \in events[n].instances

-----------------------------------------------------------------------------
(* C34 *)

\* C34: the all-chores-completed sensor is on exactly when the aggregate
\* check of a refresh, run on the store as it is, fires its event.
C34_SensorAgreesWithAggregateCheck ==
    AllChoresCompletedSensor_is_on(chore_instances)
       <=> check_all_chores_completed(chore_instances) # <<>>

-----------------------------------------------------------------------------
(* C35 *)

\* C35: while every instance has an assigned person, no pending or overdue
\* instance has the flag of every assigned person true, and the
\* all-chores-completed sensor is off; this holds whoever the calls name,
\* so also when they name assigned people only.
C35_NoActiveInstanceFullyFlagged ==
    (\A k \in DOMAIN chore_instances : chore_instances[k].assigned_people # {})
       => /\ \A k \in Active(chore_instances) :
                ~EveryAssigneeTrue(chore_instances[k])
          /\ ~AllChoresCompletedSensor_is_on(chore_instances)

\* A turn_off call by alice has written her flag as false into the pending
\* instance of alice and bob, where bob's flag is true; the sensor is off.
C35_Witness ==
    /\ last.op = "turn_off"
    /\ last.ret = TRUE
    /\ last.args[2] = "alice"
    /\ last.args[1] \in DOMAIN chore_instances
    /\ LET instance == chore_instances[last.args[1]]
       IN /\ instance.status = CHORE_STATUS_PENDING
          /\ instance.assigned_people = {"alice", "bob"}
          /\ instance.completions = [p \in {"alice", "bob"} |-> p = "bob"]
    /\ ~AllChoresCompletedSensor_is_on(chore_instances)

-----------------------------------------------------------------------------
(* C36 *)

\* C36: for every configured person the person's all-chores-completed
\* sensor is on exactly when the person-level check of complete_chore, run
\* for that person on the store as it is, fires the person-completed event.
C36_PersonSensorAgreesWithPersonCheck ==
    \A person_id \in DOMAIN people :
       PersonAllChoresCompletedSensor_is_on(chore_instances, person_id)
          <=> EventsOf(check_person_all_chores_completed(people, chore_instances,
                                                         person_id),
                       EVENT_PERSON_COMPLETED) # {}

\* alice's complete_chore call has left the instance of alice and bob
\* pending with her flag true and has fired her person-completed event; her
\* sensor is on and bob's is off.
C36_Witness ==
    /\ last.op = "complete_chore"
    /\ last.args[2] = "alice"
    /\ \E n \in EventsOf(events, EVENT_PERSON_COMPLETED) :
          events[n].person = {"alice"}
    /\ PersonAllChoresCompletedSensor_is_on(chore_instances, "alice")
    /\ ~PersonAllChoresCompletedSensor_is_on(chore_instances, "bob")
    /\ \E k \in Active(chore_instances) :
          chore_instances[k].assigned_people = {"alice", "bob"}

-----------------------------------------------------------------------------
(* C37 *)

\* The step is a refresh that follows a refresh at the same reading of the
\* clock with nothing in between.
SecondRefresh == last.op = "tick" /\ Tick

\* C37, as stated: the second of two refreshes at the same instant leaves
\* the store as the first left it and fires no chores-activated event.
C37_SecondRefreshChangesNothing ==
    [][SecondRefresh =>
          /\ chore_instances' = chore_instances
          /\ EventsOf(events', EVENT_CHORES_ACTIVATED) = {}]_vars

\* C37, amended: the second of two refreshes at the same instant fires no
\* chores-activated event and changes nothing in the store but the status
\* of the instances the first one left pending past their due date, which
\* it makes overdue; after it none is left, so a third changes nothing.
C37_SecondRefreshOnlyMarksLateActivated ==
    [][SecondRefresh =>
          /\ EventsOf(events', EVENT_CHORES_ACTIVATED) = {}
          /\ chore_instances' =
                [k \in DOMAIN chore_instances |->
                    IF k \in PendingPastDue(chore_instances)
                    THEN [chore_instances[k] EXCEPT !.status = CHORE_STATUS_OVERDUE]
                    ELSE chore_instances[k]]
          /\ PendingPastDue(chore_instances') = {}]_vars

\* At 09:00 of the second day a refresh has run that activated nothing: the
\* morning instance of the day, without any flag, was already pending, and
\* the one of the first day is overdue.
C37_Witness ==
    /\ last.op = "tick"
    /\ now.day = StartDay + 1
    /\ now.hour = 9
    /\ EventsOf(events, EVENT_CHORES_ACTIVATED) = {}
    /\ InstanceKey("walk", now.day) \in DOMAIN chore_instances
    /\ chore_instances[InstanceKey("walk", now.day)].status = CHORE_STATUS_PENDING
    /\ chore_instances[InstanceKey("walk", now.day)].completions = EmptyDict
    /\ InstanceKey("walk", StartDay) \in DOMAIN chore_instances
    /\ chore_instances[InstanceKey("walk", StartDay)].status = CHORE_STATUS_OVERDUE
    /\ chore_instances[InstanceKey("walk", StartDay)].completions = EmptyDict

-----------------------------------------------------------------------------
(* C38 *)

-----------------------------------------------------------------------------
(* C39 *)

\* C39: a refresh leaves the storage file as it is; the file changes only
\* in a complete_chore call that returns true or in a turn_off call, and
\* then it holds the store of that moment.
C39_RefreshNeverSaves ==
    [][/\ Tick => saved' = saved
       /\ saved' # saved =>
             /\ \/ last'.op = "complete_chore" /\ last'.ret = TRUE
                \/ last'.op = "turn_off"
             /\ saved' = chore_instances']_vars

\* After a complete_chore call saved the instance of the first day as
\* pending, a refresh on the second day has marked it overdue and created
\* the instance of the day: the file still has the first as pending and
\* has not the second.
C39_Witness ==
    /\ last.op = "tick"
    /\ now.day = StartDay + 1
    /\ \E k \in DOMAIN saved \cap DOMAIN chore_instances :
          /\ saved[k].status = CHORE_STATUS_PENDING
          /\ chore_instances[k].status = CHORE_STATUS_OVERDUE
    /\ \E k \in DOMAIN chore_instances \ DOMAIN saved :
          chore_instances[k].due_date = now.day

-----------------------------------------------------------------------------
(* C40 *)

\* C40: every instance of the store is under the key made of its chore_id
\* and of the calendar date of its due_date, and that date is not after the
\* date of the clock.
C40_KeyIsChoreIdAndDueDate ==
    \A k \in DOMAIN chore_instances :
       /\ k = InstanceKey(chore_instances[k].chore_id, chore_instances[k].due_date)
       /\ chore_instances[k].due_date <= now.day

\* On the second day, right after a setup that loaded a saved store, the
\* store has a completed instance due the first day, which is in the saved
\* store too, and an instance due the second day, each under its own key.
C40_Witness ==
    /\ last.op = "setup"
    /\ now.day = StartDay + 1
    /\ saved # EmptyDict
    /\ \E k, j \in DOMAIN chore_instances :
          /\ k = InstanceKey(chore_instances[k].chore_id, StartDay)
          /\ chore_instances[k].status = CHORE_STATUS_COMPLETED
          /\ k \in DOMAIN saved
          /\ j = InstanceKey(chore_instances[j].chore_id, now.day)
          /\ chore_instances[j].due_date = now.day

====
